---- MODULE Spec2Model ----
(***************************************************************************)
(* The learner knowledge graph of exp-mcp-server: the Neo4jConnection      *)
(* operations (src/src/transport/stdio.ts, second half) over a property    *)
(* graph of User / LearningProfile / Topic / Concept nodes and BELONGS_TO, *)
(* PREREQUISITE_FOR, KNOWS and TRACKS edges.  Every Cypher statement is    *)
(* modelled by what Neo4j evaluates for it, clause by clause.              *)
(***************************************************************************)
EXTENDS Integers, Sequences, FiniteSets, TLC

VARIABLES
    users,      \* User nodes: id -> attributes (u.id is UNIQUE, stdio.ts:89)
    profiles,   \* LearningProfile nodes, one per HAS edge: user id -> attributes
    concepts,   \* Concept nodes: <<name, copy>> -> attributes
    topics,     \* Topic nodes: <<name, copy>> -> attributes
    belongsTo,  \* BELONGS_TO edges: <<concept, topic>> -> attributes
    prereqFor,  \* PREREQUISITE_FOR edges: <<prerequisite, concept>> -> attributes
    knows,      \* KNOWS edges: <<user, concept>> -> attributes
    tracks,     \* TRACKS edges: <<user, topic>> -> attributes
    relatedTo,  \* RELATED_TO edges: <<concept, concept>> -> attributes
    events,     \* LearningEvent nodes with their EXPERIENCED and INVOLVES edges, in
                \* the order of their creation
    now,        \* the store's clock, read by datetime()
    resp,       \* what the last operation returned to its caller
    applied,    \* history: <<user, concept>> -> the proficiencies of the evidence applied
    handlers,   \* the requests being served: handler -> its position and its locals
    sessions,   \* the driver's sessions that are open
    transports, \* the SSE server's table: session id -> transport
    opened,     \* the number of SSE connections accepted so far
    proc        \* the process: where main is, the shutdowns in progress, the exit code

vars ==
    <<users, profiles, concepts, topics, belongsTo, prereqFor, knows, tracks, relatedTo,
      events, now, resp, applied, handlers, sessions, transports, opened, proc>>

----------------------------------------------------------------------------
(* Inputs *)

UserIds == {"u1", "u2"}

\* the requests that can be in progress at one time
Handlers == {"h1", "h2"}
\* a handler that is serving no request
Idle == [pc |-> "idle"]
ConceptNames == {"A", "B", "C"}
TopicNames == {"T1", "T2"}
EventTypes == {"learned", "practiced", "confused", "mastered", "reviewed", "unset"}
Proficiencies == 0..5
Details == {"d"}

\* evidence beyond this count on one KNOWS edge is not explored
MaxEvidence == 3

\* createConcept is not explored beyond this many Concept nodes
MaxConcepts == 3

\* a null of Cypher, for an integer property and for a node
NullInt == -1
NoNode == <<"", 0>>
\* an absent optional argument (undefined in the TypeScript)
NoArg == ""

----------------------------------------------------------------------------
(* The graph as a value, so that a handler's statements compose *)

Graph ==
    [users |-> users, profiles |-> profiles, concepts |-> concepts, topics |-> topics,
     belongsTo |-> belongsTo, prereqFor |-> prereqFor, knows |-> knows,
     tracks |-> tracks, relatedTo |-> relatedTo, events |-> events]

EmptyFn == [x \in {} |-> 0]

EmptyGraph ==
    [users |-> EmptyFn, profiles |-> EmptyFn, concepts |-> EmptyFn, topics |-> EmptyFn,
     belongsTo |-> EmptyFn, prereqFor |-> EmptyFn, knows |-> EmptyFn,
     tracks |-> EmptyFn, relatedTo |-> EmptyFn, events |-> <<>>]

Commit(g) ==
    /\ users' = g.users
    /\ profiles' = g.profiles
    /\ concepts' = g.concepts
    /\ topics' = g.topics
    /\ belongsTo' = g.belongsTo
    /\ prereqFor' = g.prereqFor
    /\ knows' = g.knows
    /\ tracks' = g.tracks
    /\ relatedTo' = g.relatedTo
    /\ events' = g.events

Put(f, key, val) == [x \in (DOMAIN f) \cup {key} |-> IF x = key THEN val ELSE f[x]]

NameOf(node) == node[1]

ConceptsNamed(g, name) == {c \in DOMAIN g.concepts : NameOf(c) = name}
TopicsNamed(g, name) == {t \in DOMAIN g.topics : NameOf(t) = name}

\* as if the pattern did not name the user: MATCH (u:User)-[:HAS]->(lp:LearningProfile)
ProfilesOf_Everyone(g, userId) == {u \in DOMAIN g.users : u \in DOMAIN g.profiles}

\* MATCH (u:User {id: $userId})-[:HAS]->(lp:LearningProfile)
ProfilesOf(g, userId) == {u \in DOMAIN g.users : u = userId /\ u \in DOMAIN g.profiles}

----------------------------------------------------------------------------
(* Knowledge stage *)

getKnowledgeStage_StrictLearned(eventType, proficiency) ==
    CASE eventType = "learned" -> IF proficiency < 2 THEN "aware" ELSE "learning"
      [] eventType = "practiced" -> IF proficiency <= 3 THEN "learning" ELSE "practicing"
      [] eventType = "confused" -> "learning"
      [] eventType = "mastered" -> "mastered"
      [] OTHER -> IF proficiency <= 1 THEN "aware"
                  ELSE IF proficiency <= 3 THEN "learning"
                  ELSE IF proficiency <= 4 THEN "practicing" ELSE "mastered"

getKnowledgeStage(eventType, proficiency) ==
    CASE eventType = "learned" -> IF proficiency <= 2 THEN "aware" ELSE "learning"
      [] eventType = "practiced" -> IF proficiency <= 3 THEN "learning" ELSE "practicing"
      [] eventType = "confused" -> "learning"
      [] eventType = "mastered" -> "mastered"
      [] OTHER -> IF proficiency <= 1 THEN "aware"
                  ELSE IF proficiency <= 3 THEN "learning"
                  ELSE IF proficiency <= 4 THEN "practicing" ELSE "mastered"

----------------------------------------------------------------------------
(* Concepts and topics *)

PlaceholderConcept ==
    [description |-> "Auto-generated concept", complexity |-> 3,
     shortExplanation |-> "This concept was automatically created based on learning data"]

PlaceholderTopic(category) ==
    [category |-> category, difficulty |-> 3, summary |-> "Auto-generated topic"]


\* CREATE (c:Concept {id: randomUUID-or-given, name: ...}): always a new node
createConcept(g, name, data) ==
    [g EXCEPT !.concepts = Put(@, <<name, Cardinality(ConceptsNamed(g, name)) + 1>>, data)]

conceptExists(g, name) == ConceptsNamed(g, name) # {}

\* as if the placeholder were created without looking for the name first
ensureConceptExists_Always(g, name) == createConcept(g, name, PlaceholderConcept)

ensureConceptExists(g, name) ==
    IF conceptExists(g, name) THEN g ELSE createConcept(g, name, PlaceholderConcept)

createTopic(g, name, data) ==
    [g EXCEPT !.topics = Put(@, <<name, Cardinality(TopicsNamed(g, name)) + 1>>, data)]

topicExists(g, name) == TopicsNamed(g, name) # {}

\* as if an existing topic were brought back to the placeholder
ensureTopicExists_Replace(g, name) ==
    IF topicExists(g, name)
    THEN [g EXCEPT !.topics = [t \in DOMAIN g.topics |->
                IF NameOf(t) = name THEN PlaceholderTopic("concept") ELSE g.topics[t]]]
    ELSE createTopic(g, name, PlaceholderTopic("concept"))

\* as if a missing topic were left missing
ensureTopicExists_Skip(g, name) == g

ensureTopicExists(g, name) ==
    IF topicExists(g, name) THEN g ELSE createTopic(g, name, PlaceholderTopic("concept"))

----------------------------------------------------------------------------
(* Relationships.  MERGE on a pattern whose end nodes are bound matches the *)
(* edge between them or creates it, once per row of the preceding MATCHes.  *)

\* as if the MERGE had no ON MATCH: an edge that exists keeps what it has
associateConceptWithTopic_OnCreateOnly(g, conceptName, topicName, isPrimary, importance) ==
    LET g1 == ensureTopicExists(ensureConceptExists(g, conceptName), topicName)
        rows == ConceptsNamed(g1, conceptName) \X TopicsNamed(g1, topicName)
        attrs == [primary |-> isPrimary, importance |-> importance]
    IN  [g1 EXCEPT !.belongsTo =
            [e \in (DOMAIN g1.belongsTo) \cup rows |->
                IF e \in DOMAIN g1.belongsTo THEN g1.belongsTo[e] ELSE attrs]]

associateConceptWithTopic(g, conceptName, topicName, isPrimary, importance) ==
    LET g1 == ensureTopicExists(ensureConceptExists(g, conceptName), topicName)
        rows == ConceptsNamed(g1, conceptName) \X TopicsNamed(g1, topicName)
        attrs == [primary |-> isPrimary, importance |-> importance]
    IN  [g1 EXCEPT !.belongsTo =
            [e \in (DOMAIN g1.belongsTo) \cup rows |->
                IF e \in rows THEN attrs ELSE g1.belongsTo[e]]]

setConceptPrerequisite(g, prerequisiteName, conceptName, strength, explanation) ==
    LET g1 == ensureConceptExists(ensureConceptExists(g, prerequisiteName), conceptName)
        rows == ConceptsNamed(g1, prerequisiteName) \X ConceptsNamed(g1, conceptName)
        attrs == [strength |-> strength, explanation |-> explanation]
    IN  [g1 EXCEPT !.prereqFor =
            [e \in (DOMAIN g1.prereqFor) \cup rows |->
                IF e \in rows THEN attrs ELSE g1.prereqFor[e]]]

relateConceptsTogether(g, concept1Name, concept2Name, relationshipType, strength, contextualNote) ==
    LET g1 == ensureConceptExists(ensureConceptExists(g, concept1Name), concept2Name)
        rows == ConceptsNamed(g1, concept1Name) \X ConceptsNamed(g1, concept2Name)
        attrs == [relationshipType |-> relationshipType, strength |-> strength,
                  contextualNote |-> contextualNote]
    IN  [g1 EXCEPT !.relatedTo =
            [e \in (DOMAIN g1.relatedTo) \cup rows |->
                IF e \in rows THEN attrs ELSE g1.relatedTo[e]]]

----------------------------------------------------------------------------
(* Users *)

userExists(g, userId) == userId \in DOMAIN g.users

\* CREATE (u:User ...) CREATE (lp:LearningProfile ...) CREATE (u)-[:HAS]->(lp) in
\* one statement; the uniqueness constraint on u.id rejects a second User of the id
\* as if there were no uniqueness constraint on User.id
createUserFails_Never(g, userId) == FALSE

createUserFails(g, userId) == userId \in DOMAIN g.users

createUser(g, userId, created) ==
    IF createUserFails(g, userId) THEN g
    ELSE [g EXCEPT
            !.users = Put(@, userId, [name |-> "Learner", created |-> created,
                                      lastActive |-> created]),
            !.profiles = Put(@, userId, [created |-> created, lastUpdated |-> created])]

----------------------------------------------------------------------------
(* Evidence *)

KnowsOnCreate_Zero(ev, t) ==
    [proficiency |-> 0, confidence |-> 8, firstSeen |-> t,
     lastUpdated |-> t, evidenceCount |-> 1,
     knowledgeStage |-> getKnowledgeStage(ev.eventType, ev.proficiency),
     misconceptions |-> <<>>, notes |-> <<ev.details>>]

KnowsOnCreate(ev, t) ==
    [proficiency |-> ev.proficiency, confidence |-> 8, firstSeen |-> t,
     lastUpdated |-> t, evidenceCount |-> 1,
     knowledgeStage |-> getKnowledgeStage(ev.eventType, ev.proficiency),
     misconceptions |-> <<>>, notes |-> <<ev.details>>]

KnowsOnMatch_Overwrite(k, ev, t) ==
    [k EXCEPT !.proficiency = ev.proficiency,
              !.lastUpdated = t,
              !.evidenceCount = @ + 1,
              !.knowledgeStage = getKnowledgeStage(ev.eventType, ev.proficiency),
              !.notes = Append(@, ev.details)]

\* as if ON MATCH left evidenceCount alone
KnowsOnMatch_CountKept(k, ev, t) ==
    [k EXCEPT !.proficiency = IF ev.proficiency > @ THEN ev.proficiency ELSE @,
              !.lastUpdated = t,
              !.knowledgeStage = getKnowledgeStage(ev.eventType, ev.proficiency),
              !.notes = Append(@, ev.details)]

\* as if the stage were derived from the stored (max-merged) proficiency
KnowsOnMatch_StageOfStored(k, ev, t) ==
    [k EXCEPT !.proficiency = IF ev.proficiency > @ THEN ev.proficiency ELSE @,
              !.lastUpdated = t,
              !.evidenceCount = @ + 1,
              !.knowledgeStage =
                  getKnowledgeStage(ev.eventType,
                                    IF ev.proficiency > k.proficiency THEN ev.proficiency
                                    ELSE k.proficiency),
              !.notes = Append(@, ev.details)]

\* as if later evidence restarted the edge's history
KnowsOnMatch_FirstSeenReset(k, ev, t) ==
    [k EXCEPT !.proficiency = IF ev.proficiency > @ THEN ev.proficiency ELSE @,
              !.firstSeen = t,
              !.lastUpdated = t,
              !.evidenceCount = @ + 1,
              !.knowledgeStage = getKnowledgeStage(ev.eventType, ev.proficiency),
              !.notes = Append(@, ev.details)]

KnowsOnMatch(k, ev, t) ==
    [k EXCEPT !.proficiency = IF ev.proficiency > @ THEN ev.proficiency ELSE @,
              !.lastUpdated = t,
              !.evidenceCount = @ + 1,
              !.knowledgeStage = getKnowledgeStage(ev.eventType, ev.proficiency),
              !.notes = Append(@, ev.details)]

TrackOnCreate(t) == [since |-> t, active |-> TRUE, priority |-> 3, goal |-> "Learning"]

\* as if ON MATCH set nothing
TrackOnMatch_Keep(track) == track

\* as if a matched edge were set up again
TrackOnMatch_Reset(track) == [track EXCEPT !.active = TRUE, !.priority = 3]

TrackOnMatch(track) == [track EXCEPT !.active = TRUE]

\* MATCH (u)-[:HAS]->(lp) MATCH (c:Concept {name}) MERGE (lp)-[k:KNOWS]->(c) ...
mergeKnows(g, userId, ev, t) ==
    LET krows == ProfilesOf(g, userId) \X ConceptsNamed(g, ev.name)
    IN  [g EXCEPT !.knows =
            [e \in (DOMAIN g.knows) \cup krows |->
                IF e \notin krows THEN g.knows[e]
                ELSE IF e \in DOMAIN g.knows THEN KnowsOnMatch(g.knows[e], ev, t)
                ELSE KnowsOnCreate(ev, t)]]

\* ... MATCH (c)-[:BELONGS_TO]->(t:Topic) MERGE (lp)-[track:TRACKS]->(t) ...
mergeTracks(g, userId, conceptName, t) ==
    LET cs == ConceptsNamed(g, conceptName)
        ts == {tp \in DOMAIN g.topics : \E c \in cs : <<c, tp>> \in DOMAIN g.belongsTo}
        trows == ProfilesOf(g, userId) \X ts
    IN  [g EXCEPT !.tracks =
            [e \in (DOMAIN g.tracks) \cup trows |->
                IF e \notin trows THEN g.tracks[e]
                ELSE IF e \in DOMAIN g.tracks THEN TrackOnMatch(g.tracks[e])
                ELSE TrackOnCreate(t)]]

updateConceptKnowledge(g, userId, ev, t) ==
    mergeTracks(mergeKnows(ensureConceptExists(g, ev.name), userId, ev, t),
                userId, ev.name, t)

RECURSIVE updateAll(_, _, _, _)
updateAll(g, userId, evs, t) ==
    IF evs = <<>> THEN g
    ELSE updateAll(updateConceptKnowledge(g, userId, Head(evs), t), userId, Tail(evs), t)

\* MATCH (u:User {id: $userId})-[:HAS]->(lp:LearningProfile) SET lp.lastUpdated = datetime()
touchProfile(g, userId, t) ==
    [g EXCEPT !.profiles =
        [u \in DOMAIN @ |-> IF u \in ProfilesOf(g, userId)
                            THEN [@[u] EXCEPT !.lastUpdated = t] ELSE @[u]]]

updateLearningProfile(g, userId, evs, t) == touchProfile(updateAll(g, userId, evs, t), userId, t)

\* as if the event were created without the MATCH of the user
insertLearningEvent_AnyUser(g, userId, conceptName, eventType, details, t) ==
    LET le == [userId |-> userId, conceptName |-> conceptName, eventType |-> eventType,
               details |-> details, timestamp |-> t]
    IN  [g EXCEPT !.events = @ \o [i \in 1..Cardinality(ConceptsNamed(g, conceptName)) |-> le]]

\* the statement of createLearningEvent: one LearningEvent per row of
\* MATCH (u:User {id: $userId}) MATCH (c:Concept {name: $conceptName})
insertLearningEvent(g, userId, conceptName, eventType, details, t) ==
    LET cs == ConceptsNamed(g, conceptName)
        n == IF userId \in DOMAIN g.users THEN Cardinality(cs) ELSE 0
        le == [userId |-> userId, conceptName |-> conceptName, eventType |-> eventType,
               details |-> details, timestamp |-> t]
    IN  [g EXCEPT !.events = @ \o [i \in 1..n |-> le]]

createLearningEvent(g, userId, conceptName, eventType, details, t) ==
    insertLearningEvent(ensureConceptExists(g, conceptName), userId, conceptName,
                        eventType, details, t)

----------------------------------------------------------------------------
(* Operations as steps.  Every operation leaves its return value in resp. *)

GraphVars ==
    <<users, profiles, concepts, topics, belongsTo, prereqFor, knows, tracks, relatedTo,
      events>>

ServerVars == <<transports, opened, proc>>

\* process.exit has not been called
NoExit == [cause |-> "none", threw |-> FALSE]

\* no SSE connection has been accepted; main has started the transport and no
\* shutdown is in progress
Serving(transportType) ==
    [main |-> "serving", transportType |-> transportType, transport |-> transportType,
     shutdowns |-> <<>>, exitCode |-> NullInt, exitedBy |-> NoExit]

ServerInit ==
    /\ transports = EmptyFn
    /\ opened = 0
    /\ proc = Serving("sse")

Void(op) == [op |-> op, threw |-> FALSE]

\* driver.session() and session.close(), on the number of open sessions
openSession(n) == n + 1
closeSession(n) == n - 1

\* const session = this.driver.session(); try { ... } finally { session.close() }:
\* whether the body returns or throws, and whatever sessions the methods it
\* calls have opened and closed in the same way
withSession(n) == closeSession(openSession(n))

Returns(r) == resp' = r

\* the store and the requests, before anything is served
StoreInit(g) ==
    /\ users = g.users
    /\ profiles = g.profiles
    /\ concepts = g.concepts
    /\ topics = g.topics
    /\ belongsTo = g.belongsTo
    /\ prereqFor = g.prereqFor
    /\ knows = g.knows
    /\ tracks = g.tracks
    /\ relatedTo = g.relatedTo
    /\ events = g.events
    /\ now = 0
    /\ resp = Void("init")
    /\ applied = EmptyFn
    /\ handlers = [h \in Handlers |-> Idle]
    /\ sessions = 0

InitWith(g) == StoreInit(g) /\ ServerInit

Init == InitWith(EmptyGraph)

RangeOf(seq) == {seq[i] : i \in DOMAIN seq}

\* the evidence a batch brings to each KNOWS edge of the resulting graph
Record(g, userId, evs) ==
    [e \in DOMAIN g.knows |->
        (IF e \in DOMAIN applied THEN applied[e] ELSE {})
        \cup {ev.proficiency : ev \in {x \in RangeOf(evs) :
                                         e[1] = userId /\ NameOf(e[2]) = x.name}}]

CreateUser(userId) ==
    /\ Commit(createUser(Graph, userId, now))
    /\ Returns([op |-> "createUser", threw |-> createUserFails(Graph, userId)])
    /\ UNCHANGED <<now, ServerVars, sessions, applied, handlers>>

CreateConcept(name, data) ==
    /\ Commit(createConcept(Graph, name, data))
    /\ Returns(Void("createConcept"))
    /\ UNCHANGED <<now, ServerVars, sessions, applied, handlers>>

AssociateConceptWithTopic(conceptName, topicName, isPrimary, importance) ==
    /\ Commit(associateConceptWithTopic(Graph, conceptName, topicName, isPrimary, importance))
    /\ Returns(Void("associateConceptWithTopic"))
    /\ sessions' = withSession(sessions)
    /\ UNCHANGED <<now, ServerVars, applied, handlers>>

SetConceptPrerequisite(prerequisiteName, conceptName, strength, explanation) ==
    /\ Commit(setConceptPrerequisite(Graph, prerequisiteName, conceptName, strength,
                                     explanation))
    /\ Returns(Void("setConceptPrerequisite"))
    /\ sessions' = withSession(sessions)
    /\ UNCHANGED <<now, ServerVars, applied, handlers>>

RelateConceptsTogether(concept1Name, concept2Name, relationshipType, strength, contextualNote) ==
    /\ Commit(relateConceptsTogether(Graph, concept1Name, concept2Name, relationshipType,
                                     strength, contextualNote))
    /\ Returns(Void("relateConceptsTogether"))
    /\ sessions' = withSession(sessions)
    /\ UNCHANGED <<now, ServerVars, applied, handlers>>

UpdateLearningProfile(userId, evs) ==
    LET g == updateLearningProfile(Graph, userId, evs, now)
    IN  /\ Commit(g)
        /\ applied' = Record(g, userId, evs)
        /\ Returns(Void("updateLearningProfile"))
        /\ sessions' = withSession(sessions)
        /\ UNCHANGED <<now, ServerVars, handlers>>

ConceptExists(conceptName) ==
    /\ Returns([op |-> "conceptExists", threw |-> FALSE, name |-> conceptName,
                exists |-> conceptExists(Graph, conceptName)])
    /\ UNCHANGED <<GraphVars, now, ServerVars, sessions, applied, handlers>>

TopicExists(topicName) ==
    /\ Returns([op |-> "topicExists", threw |-> FALSE, name |-> topicName,
                exists |-> topicExists(Graph, topicName)])
    /\ UNCHANGED <<GraphVars, now, ServerVars, sessions, applied, handlers>>

\* the steps explored: no KNOWS edge beyond MaxEvidence pieces of evidence
WithinEvidenceBound == \A e \in DOMAIN knows' : knows'[e].evidenceCount <= MaxEvidence

GetKnowledgeStage(eventType, proficiency) ==
    /\ Returns([op |-> "getKnowledgeStage", threw |-> FALSE, eventType |-> eventType,
                proficiency |-> proficiency,
                stage |-> getKnowledgeStage(eventType, proficiency)])
    /\ UNCHANGED <<GraphVars, now, ServerVars, sessions, applied, handlers>>

----------------------------------------------------------------------------
(* The stage function, called in any state of the graph *)

EvidenceOf(names, profs, types) ==
    [name : names, proficiency : profs, eventType : types, details : Details]

StageEvidence == EvidenceOf({"A"}, {2, 4}, {"learned", "mastered"})

StageNext ==
    \/ CreateUser("u1")
    \/ \E ev \in StageEvidence : UpdateLearningProfile("u1", <<ev>>) /\ WithinEvidenceBound
    \/ \E e \in EventTypes, p \in Proficiencies : GetKnowledgeStage(e, p)

SpecStage == Init /\ [][StageNext]_vars

----------------------------------------------------------------------------
(* Evidence applied to learners' profiles *)

BatchesOf(E) == {<<e>> : e \in E} \cup {<<e1, e2>> : e1 \in E, e2 \in E}

EvEvidence == EvidenceOf({"A"}, {1, 3, 5}, {"learned", "confused"})

EvidenceNext ==
    \/ \E u \in UserIds : CreateUser(u)
    \/ \E u \in UserIds, evs \in BatchesOf(EvEvidence) : UpdateLearningProfile(u, evs) /\ WithinEvidenceBound

SpecEvidence == Init /\ [][EvidenceNext]_vars

----------------------------------------------------------------------------
(* Evidence in which only "mastered" evidence carries proficiency 5 *)

RegressEvidence ==
    EvidenceOf({"A"}, {5}, {"mastered"}) \cup EvidenceOf({"A"}, {1, 3}, {"confused", "learned"})

RegressNext ==
    \/ \E u \in UserIds : CreateUser(u)
    \/ \E u \in UserIds, evs \in BatchesOf(RegressEvidence) :
            UpdateLearningProfile(u, evs) /\ WithinEvidenceBound

SpecRegress == Init /\ [][RegressNext]_vars

----------------------------------------------------------------------------
(* Queries.  A query's records are modelled as the set of them where their  *)
(* order is not specified by the statement.                                  *)
(*                                                                           *)
(* OPTIONAL MATCH pattern WHERE pred: the WHERE belongs to the OPTIONAL      *)
(* MATCH.  A row for which no match of the pattern satisfies pred is kept,   *)
(* with the pattern's new variables null; pred never removes a row.  While   *)
(* the pattern is matched its variables are bound, so "k IS NULL" is false   *)
(* there.                                                                    *)

\* OPTIONAL MATCH (lp)-[k:KNOWS]->(c) WHERE k IS NULL OR k.proficiency < limit:
\* the proficiency of the k that is bound, NullInt when k is null
KnowsBelow(g, lp, c, limit) ==
    IF <<lp, c>> \in DOMAIN g.knows /\ g.knows[<<lp, c>>].proficiency < limit
    THEN g.knows[<<lp, c>>].proficiency
    ELSE NullInt

GapEntry(g, lp, c, q) ==
    [name |-> NameOf(q),
     description |-> g.concepts[q].description,
     strength |-> g.prereqFor[<<q, c>>].strength,
     explanation |-> g.prereqFor[<<q, c>>].explanation,
     proficiency |-> KnowsBelow(g, lp, q, 3)]

\* rows <<lp, c, prereq>> of the three MATCH clauses
GapRows(g, userId, conceptNames) ==
    {r \in ProfilesOf(g, userId)
            \X {c \in DOMAIN g.concepts : NameOf(c) \in conceptNames}
            \X (DOMAIN g.concepts) :
        <<r[3], r[2]>> \in DOMAIN g.prereqFor}

\* as if the statement read MATCH (lp)-[k:KNOWS]->(prereq) WHERE k.proficiency < 3
findPrerequisitesNotKnown_Match(g, userId, conceptNames) ==
    LET rows == {r \in GapRows(g, userId, conceptNames) :
                    KnowsBelow(g, r[1], r[3], 3) # NullInt}
    IN  {[conceptName |-> n,
          missingPrerequisites |->
              {GapEntry(g, r[1], r[2], r[3]) : r \in {x \in rows : NameOf(x[2]) = n}}] :
            n \in {NameOf(r[2]) : r \in rows}}

findPrerequisitesNotKnown(g, userId, conceptNames) ==
    LET rows == GapRows(g, userId, conceptNames)
    IN  {[conceptName |-> n,
          missingPrerequisites |->
              {GapEntry(g, r[1], r[2], r[3]) : r \in {x \in rows : NameOf(x[2]) = n}}] :
            n \in {NameOf(r[2]) : r \in rows}}

FindPrerequisitesNotKnown(userId, conceptNames) ==
    /\ Returns([op |-> "findPrerequisitesNotKnown", threw |-> FALSE, userId |-> userId,
                conceptNames |-> conceptNames,
                records |-> findPrerequisitesNotKnown(Graph, userId, conceptNames)])
    /\ UNCHANGED <<GraphVars, now, ServerVars, sessions, applied, handlers>>

----------------------------------------------------------------------------
(* Recommendation *)

RecLimit == 5

TopicsOfConcept(g, c) == {t \in DOMAIN g.topics : <<c, t>> \in DOMAIN g.belongsTo}

\* as if the statement read MATCH (c)-[:BELONGS_TO]->(t:Topic)
TopicRows_Match(g, c) == TopicsOfConcept(g, c)

\* OPTIONAL MATCH (c)-[:BELONGS_TO]->(t:Topic): one row per topic, one row with a
\* null t when the concept has none
TopicRows(g, c) == IF TopicsOfConcept(g, c) = {} THEN {NoNode} ELSE TopicsOfConcept(g, c)

\* OPTIONAL MATCH (lp)-[track:TRACKS]->(t) WHERE track.active = true OR track IS NULL
\* [AND t.name = $topic]: AND binds tighter than OR and track is bound while the
\* pattern is matched, so track is the edge when it is active and null otherwise.
\* The priority of the track that is bound, NullInt when track is null.
TrackPriority(g, lp, t, topic) ==
    LET trackIsNull == FALSE
        named == topic = NoArg \/ NameOf(t) = topic
    IN  IF /\ <<lp, t>> \in DOMAIN g.tracks
           /\ (g.tracks[<<lp, t>>].active \/ (trackIsNull /\ named))
        THEN g.tracks[<<lp, t>>].priority
        ELSE NullInt

PrerequisitesOf(g, c) == {q \in DOMAIN g.concepts : <<q, c>> \in DOMAIN g.prereqFor}

\* count(DISTINCT p) and count(DISTINCT pk) of the group of c
prereqCount(g, c) == Cardinality(PrerequisitesOf(g, c))
knownPrereqCount(g, lp, c) ==
    Cardinality({q \in PrerequisitesOf(g, c) : <<lp, q>> \in DOMAIN g.knows})

\* as if the WHERE after the WITH were missing
RecGroups_NoPrerequisiteCheck(g, userId, topic) ==
    {r \in ProfilesOf(g, userId) \X (DOMAIN g.concepts) \X ((DOMAIN g.topics) \cup {NoNode}) :
        r[3] \in TopicRows(g, r[2])}

\* the groups <<lp, c, t>> of "WITH c, t, track, count.., count.." that pass its WHERE.
\* The OPTIONAL MATCH of k (WHERE k IS NULL OR k.proficiency < 4) binds k or leaves
\* it null and k is not read again: it removes no concept.
RecGroups(g, userId, topic) ==
    {r \in ProfilesOf(g, userId) \X (DOMAIN g.concepts) \X ((DOMAIN g.topics) \cup {NoNode}) :
        /\ r[3] \in TopicRows(g, r[2])
        /\ \/ prereqCount(g, r[2]) = knownPrereqCount(g, r[1], r[2])
           \/ prereqCount(g, r[2]) = 0}

\* as if the default were 4
topicPriority_DefaultFour(g, r, topic) ==
    IF TrackPriority(g, r[1], r[3], topic) = NullInt THEN 4
    ELSE TrackPriority(g, r[1], r[3], topic)

\* WITH c, CASE WHEN track IS NULL THEN 3 ELSE track.priority END AS topicPriority, ...
topicPriority(g, r, topic) ==
    IF TrackPriority(g, r[1], r[3], topic) = NullInt THEN 3
    ELSE TrackPriority(g, r[1], r[3], topic)

\* ... CASE WHEN c.complexity IS NULL THEN 3 ELSE c.complexity END AS conceptComplexity
conceptComplexity(c) == IF c.complexity = NullInt THEN 3 ELSE c.complexity

\* RETURN: grouped by the concept's returned properties and topicPriority; topics
\* collects the names of the t of the rows of the group (the RETURN reads t, which
\* the WITH before it does not list; it is read here from the rows that WITH made)
RecEntry(g, r, topic, rows) ==
    LET tp == topicPriority(g, r, topic)
        c == g.concepts[r[2]]
        cx == conceptComplexity(c)
        same == {x \in rows :
                    /\ NameOf(x[2]) = NameOf(r[2])
                    /\ g.concepts[x[2]] = c
                    /\ topicPriority(g, x, topic) = tp}
    IN  [name |-> NameOf(r[2]),
         description |-> c.description,
         complexity |-> c.complexity,
         shortExplanation |-> c.shortExplanation,
         topics |-> {NameOf(x[3]) : x \in {y \in same : y[3] # NoNode}},
         topicPriority |-> tp,
         conceptComplexity |-> cx,
         recommendationScore |-> (tp * 2) - cx]

RecEntries(g, userId, topic) ==
    LET rows == RecGroups(g, userId, topic)
    IN  {RecEntry(g, r, topic, rows) : r \in rows}

\* ORDER BY recommendationScore DESC LIMIT 5: every order of the entries that is
\* non-increasing in the score (the order among equal scores is the store's), cut
\* after the fifth
RECURSIVE TopOf(_, _)
TopOf(E, limit) ==
    IF limit = 0 \/ E = {} THEN {<<>>}
    ELSE LET best == {e \in E : \A x \in E : e.recommendationScore >= x.recommendationScore}
         IN  UNION {{<<e>> \o s : s \in TopOf(E \ {e}, limit - 1)} : e \in best}

getRecommendedNextConcepts(g, userId, topic) == TopOf(RecEntries(g, userId, topic), RecLimit)

GetRecommendedNextConcepts(userId, topic) ==
    /\ \E s \in getRecommendedNextConcepts(Graph, userId, topic) :
            Returns([op |-> "getRecommendedNextConcepts", threw |-> FALSE,
                     userId |-> userId, topic |-> topic, records |-> s])
    /\ UNCHANGED <<GraphVars, now, ServerVars, sessions, applied, handlers>>

----------------------------------------------------------------------------
(* Prerequisite gaps of a learner *)

GapPrerequisites == {<<"A", "B">>, <<"C", "B">>, <<"A", "C">>}
GapStrengths == {5, 8}
GapExplanations == {"", "why"}
GapEvidence == EvidenceOf({"A"}, {2, 3}, {"learned"})
GapTargets == {{"B"}, {"B", "C"}}

GapNext ==
    \/ CreateUser("u1")
    \/ \E pc \in GapPrerequisites, s \in GapStrengths, x \in GapExplanations :
            SetConceptPrerequisite(pc[1], pc[2], s, x)
    \/ \E ev \in GapEvidence : UpdateLearningProfile("u1", <<ev>>) /\ WithinEvidenceBound
    \/ \E u \in UserIds, ns \in GapTargets : FindPrerequisitesNotKnown(u, ns)

SpecGap == Init /\ [][GapNext]_vars

----------------------------------------------------------------------------
(* Recommendations for a learner.  The store outlives the server: it may     *)
(* start empty, or hold a learner whose TRACKS edges were given a priority   *)
(* and an active flag by whoever curates the store.                          *)

SeedGraph ==
    [EmptyGraph EXCEPT
        !.users = Put(@, "u1", [name |-> "Learner", created |-> 0, lastActive |-> 0]),
        !.profiles = Put(@, "u1", [created |-> 0, lastUpdated |-> 0]),
        !.topics = Put(Put(@, <<"T1", 1>>, PlaceholderTopic("language")),
                       <<"T2", 1>>, PlaceholderTopic("concept")),
        !.tracks = Put(Put(@, <<"u1", <<"T1", 1>>>>,
                           [since |-> 0, active |-> TRUE, priority |-> 5,
                            goal |-> "Learning"]),
                       <<"u1", <<"T2", 1>>>>,
                       [since |-> 0, active |-> FALSE, priority |-> 4,
                        goal |-> "Learning"])]

RecInit == \E g \in {EmptyGraph, SeedGraph} : InitWith(g)

ConceptDataOf(complexity) ==
    [description |-> "given", complexity |-> complexity, shortExplanation |-> "short"]

RecAssociations == {<<"A", "T1">>, <<"B", "T2">>}
RecPrerequisites == {<<"A", "B">>, <<"C", "B">>}
RecEvidence ==
    EvidenceOf({"A"}, {2, 5}, {"learned"}) \cup EvidenceOf({"C"}, {5}, {"learned"})
RecTopics == {NoArg, "T1"}

RecNext ==
    \/ CreateUser("u1")
    \/ \E ct \in RecAssociations : AssociateConceptWithTopic(ct[1], ct[2], FALSE, 5)
    \/ \E pc \in RecPrerequisites : SetConceptPrerequisite(pc[1], pc[2], 5, "")
    \/ \E ev \in RecEvidence : UpdateLearningProfile("u1", <<ev>>) /\ WithinEvidenceBound
    \/ \E t \in RecTopics : GetRecommendedNextConcepts("u1", t)

SpecRec == RecInit /\ [][RecNext]_vars

----------------------------------------------------------------------------
(* Ranking of the recommendations over concepts of different complexity *)

RankConcepts == {<<"A", 2>>, <<"B", 4>>, <<"C", 4>>}
RankAssociations == {"A", "B", "C"} \X {"T1", "T2"}
RankTopics == {NoArg}

RankPrerequisites == {<<"C", "B">>}

RankNext ==
    \/ CreateUser("u1")
    \/ \E pc \in RankPrerequisites : SetConceptPrerequisite(pc[1], pc[2], 5, "")
    \/ \E nc \in RankConcepts :
            /\ Cardinality(DOMAIN concepts) < MaxConcepts
            /\ CreateConcept(nc[1], ConceptDataOf(nc[2]))
    \/ \E ct \in RankAssociations : AssociateConceptWithTopic(ct[1], ct[2], FALSE, 5)
    \/ \E t \in RankTopics : GetRecommendedNextConcepts("u1", t)

SpecRank == RecInit /\ [][RankNext]_vars

----------------------------------------------------------------------------
(* Evidence for concepts of tracked, untracked and deactivated topics *)

TrackAssociations == {<<"A", "T2">>, <<"A", "T3">>, <<"B", "T1">>}
TrackEvidence == EvidenceOf({"A", "B"}, {3}, {"learned"})

TrackNext ==
    \/ CreateUser("u1")
    \/ \E ct \in TrackAssociations : AssociateConceptWithTopic(ct[1], ct[2], FALSE, 5)
    \/ \E ev \in TrackEvidence : UpdateLearningProfile("u1", <<ev>>) /\ WithinEvidenceBound

SpecTrack == RecInit /\ [][TrackNext]_vars

----------------------------------------------------------------------------
(* Association of concepts and topics that exist, exist twice or do not exist *)

AssocConcepts == {"A", "B"}
AssocTopics == {"T1"}
AssocStrengths == {5, 8}
AssocPrerequisites == {<<"A", "B">>}
AssocRelations == {<<"B", "A">>}
RelationshipTypes == {"builds_on"}

AssocNext ==
    \/ /\ Cardinality(DOMAIN concepts) < MaxConcepts
       /\ CreateConcept("A", ConceptDataOf(2))
    \/ \E c \in AssocConcepts, t \in AssocTopics :
            AssociateConceptWithTopic(c, t, FALSE, 5)
    \/ \E pc \in AssocPrerequisites, s \in AssocStrengths :
            SetConceptPrerequisite(pc[1], pc[2], s, "")
    \/ \E pc \in AssocRelations, ty \in RelationshipTypes :
            RelateConceptsTogether(pc[1], pc[2], ty, 5, "")
    \/ \E c \in AssocConcepts : ConceptExists(c)
    \/ \E t \in AssocTopics : TopicExists(t)

SpecAssoc == Init /\ [][AssocNext]_vars

----------------------------------------------------------------------------
(* LlmService (src/unnamed/part_001).  A reply of the model is a sequence of  *)
(* tokens: the opening and the closing of a json code fence, the two braces,  *)
(* three object members and other text.                                       *)

\* replies of more tokens are not explored
MaxReply == 5

FenceOpen == "fence-open"
FenceClose == "fence-close"
MemberRelated == "isProgrammingRelated: true"
MemberUnrelated == "isProgrammingRelated: false"
MemberConcepts == "concepts: [...]"
OtherText == "text"

Tokens ==
    {FenceOpen, FenceClose, "{", "}", MemberRelated, MemberUnrelated, MemberConcepts,
     OtherText}

Contents == UNION {[1..n -> Tokens] : n \in 0..MaxReply}

\* this.model.call rejects, or resolves with the content
ModelThrows == [throws |-> TRUE, content |-> <<>>]

Replies == {ModelThrows} \cup [throws : {FALSE}, content : Contents]

DetermineTask == "determine-if-programming-related"

Tasks == {DetermineTask, "summarize"}

PrimaryTopics == {NoArg, "T1"}

\* the concept the conversation is about
AnalyzedConcepts == <<[name |-> "A", proficiency |-> 3, eventType |-> "learned", details |-> "d"]>>

Returned(v) == [threw |-> FALSE, value |-> v]

Thrown == [threw |-> TRUE, value |-> <<>>]

NoMatch == [whole |-> <<>>, group |-> <<>>]

\* the positions of tok in s from position from on
PositionsOf(s, tok, from) == {i \in from..Len(s) : s[i] = tok}

MinOf(S) == CHOOSE i \in S : \A j \in S : i <= j

LastOf(S) == CHOOSE i \in S : \A j \in S : j <= i

\* the first content.match, for a json code fence: the first fence and the first closing
\* after it; the group is what stands between them
fenceMatch(content) ==
    LET opens == PositionsOf(content, FenceOpen, 1)
    IN  IF opens = {} THEN NoMatch
        ELSE LET closes == PositionsOf(content, FenceClose, MinOf(opens) + 1)
             IN  IF closes = {} THEN NoMatch
                 ELSE [whole |-> SubSeq(content, MinOf(opens), MinOf(closes)),
                       group |-> SubSeq(content, MinOf(opens) + 1, MinOf(closes) - 1)]

\* the second content.match, for braces: from the first opening brace to the last closing
\* brace; there is no group
braceMatch(content) ==
    LET opens == PositionsOf(content, "{", 1)
    IN  IF opens = {} THEN NoMatch
        ELSE LET closes == PositionsOf(content, "}", MinOf(opens) + 1)
             IN  IF closes = {} THEN NoMatch
                 ELSE [whole |-> SubSeq(content, MinOf(opens), LastOf(closes)),
                       group |-> <<>>]

jsonMatch(content) ==
    IF fenceMatch(content) # NoMatch THEN fenceMatch(content) ELSE braceMatch(content)

\* jsonMatch[1] || jsonMatch[0]
matchedText(m) == IF m.group # <<>> THEN m.group ELSE m.whole

\* JSON.parse: an object of no or one member, or a SyntaxError
JSONparse(text) ==
    CASE text = <<"{", "}">> -> Returned(<<>>)
      [] text = <<"{", MemberRelated, "}">> -> Returned([isProgrammingRelated |-> TRUE])
      [] text = <<"{", MemberUnrelated, "}">> -> Returned([isProgrammingRelated |-> FALSE])
      [] text = <<"{", MemberConcepts, "}">> -> Returned([concepts |-> AnalyzedConcepts])
      [] OTHER -> Thrown

\* the try block of quickAnalyze (part_001:65-95)
quickAnalyzeTry(reply, task) ==
    IF reply.throws THEN Thrown
    ELSE IF jsonMatch(reply.content) # NoMatch
         THEN JSONparse(matchedText(jsonMatch(reply.content)))
         ELSE IF task = DetermineTask THEN Returned([isProgrammingRelated |-> FALSE])
              ELSE Thrown

quickAnalyzeCatch_Rethrow(task) == Thrown

\* as if the fallback took the conversation for programming-related
quickAnalyzeCatch_Related(task) == Returned([isProgrammingRelated |-> TRUE])

\* the catch block of quickAnalyze (part_001:96-104)
quickAnalyzeCatch(task) ==
    IF task = DetermineTask THEN Returned([isProgrammingRelated |-> FALSE])
    ELSE Returned([error |-> "Failed to analyze text"])

quickAnalyze(reply, task) ==
    IF quickAnalyzeTry(reply, task).threw THEN quickAnalyzeCatch(task)
    ELSE quickAnalyzeTry(reply, task)

\* the try block of analyzeConversation (part_001:122-166)
analyzeConversationTry(reply) ==
    IF reply.throws THEN Thrown
    ELSE IF jsonMatch(reply.content) # NoMatch
         THEN JSONparse(matchedText(jsonMatch(reply.content)))
         ELSE Thrown

\* the catch block of analyzeConversation (part_001:167-177)
analyzeConversationCatch(primaryTopic) ==
    Returned([concepts |-> <<>>, overallUnderstanding |-> "2.5", misconceptions |-> <<>>,
              detectedTopic |-> IF primaryTopic # NoArg THEN primaryTopic
                                ELSE "programming"])

analyzeConversation(reply, primaryTopic) ==
    IF analyzeConversationTry(reply).threw THEN analyzeConversationCatch(primaryTopic)
    ELSE analyzeConversationTry(reply)

\* the outcome of this.model.call that the service is about to handle
ModelCall(reply) == [op |-> "model.call", threw |-> reply.throws, reply |-> reply]

\* a call of the service whose model call has settled, over an empty store
LlmInit ==
    /\ users = EmptyGraph.users
    /\ profiles = EmptyGraph.profiles
    /\ concepts = EmptyGraph.concepts
    /\ topics = EmptyGraph.topics
    /\ belongsTo = EmptyGraph.belongsTo
    /\ prereqFor = EmptyGraph.prereqFor
    /\ knows = EmptyGraph.knows
    /\ tracks = EmptyGraph.tracks
    /\ relatedTo = EmptyGraph.relatedTo
    /\ events = EmptyGraph.events
    /\ now = 0
    /\ resp \in {ModelCall(reply) : reply \in Replies}
    /\ applied = EmptyFn
    /\ handlers = [h \in Handlers |-> Idle]
    /\ sessions = 0
    /\ ServerInit

QuickAnalyze(task) ==
    /\ resp.op = "model.call"
    /\ resp' = [op |-> "quickAnalyze", threw |-> quickAnalyze(resp.reply, task).threw,
                task |-> task, reply |-> resp.reply,
                result |-> quickAnalyze(resp.reply, task).value]
    /\ UNCHANGED <<GraphVars, now, ServerVars, sessions, applied, handlers>>

AnalyzeConversation(primaryTopic) ==
    /\ resp.op = "model.call"
    /\ resp' = [op |-> "analyzeConversation",
                threw |-> analyzeConversation(resp.reply, primaryTopic).threw,
                primaryTopic |-> primaryTopic, reply |-> resp.reply,
                result |-> analyzeConversation(resp.reply, primaryTopic).value]
    /\ UNCHANGED <<GraphVars, now, ServerVars, sessions, applied, handlers>>

LlmNext ==
    \/ \E task \in Tasks : QuickAnalyze(task)
    \/ \E primaryTopic \in PrimaryTopics : AnalyzeConversation(primaryTopic)

SpecLlm == LlmInit /\ [][LlmNext]_vars

----------------------------------------------------------------------------
(* The software-mentor-evaluation tool (src/src/features/tools.ts:29-123).  A *)
(* handler runs up to its next await of a graph statement in one step, so the *)
(* statements of requests in progress interleave.                             *)

\* learning events beyond this number are not explored
MaxEvents == 2
\* the clock is not advanced beyond this
MaxNow == 1
ToolName == "software-mentor-evaluation"

SetHandler(h, rec) == handlers' = [handlers EXCEPT ![h] = rec]

At(h, pc) == handlers[h].pc = pc

\* the handler returns: its response goes to the client and it serves no more
Respond(h, userId, error, updated) ==
    /\ SetHandler(h, Idle)
    /\ resp' = [op |-> ToolName, threw |-> FALSE, userId |-> userId,
                isError |-> error # "none", error |-> error, updated |-> updated]

\* !topicAnalysis.isProgrammingRelated (tools.ts:46): true also for a result without
\* that property
notProgrammingRelated(topicAnalysis) ==
    ~("isProgrammingRelated" \in DOMAIN topicAnalysis /\ topicAnalysis.isProgrammingRelated)

\* a request arrives and llm.quickAnalyze answers (tools.ts:41-54)
EvalClassify(h, userId, reply) ==
    /\ handlers[h] = Idle
    /\ IF notProgrammingRelated(quickAnalyze(reply, DetermineTask).value)
       THEN Respond(h, userId, "none", FALSE)
       ELSE /\ SetHandler(h, [pc |-> "userExists", userId |-> userId])
            /\ UNCHANGED resp
    /\ UNCHANGED <<GraphVars, now, ServerVars, sessions, applied>>

\* what the model answers to the classification: nothing (the call throws), text
\* without JSON, a fence around text that is no JSON, an object without the
\* property, false, true
ClassifierReplies ==
    {ModelThrows} \cup
    [throws : {FALSE},
     content : {<<OtherText>>, <<FenceOpen, OtherText, FenceClose>>, <<"{", "}">>,
                <<"{", MemberUnrelated, "}">>, <<"{", MemberRelated, "}">>}]

EvalStart(h, userId) == \E reply \in ClassifierReplies : EvalClassify(h, userId, reply)

\* const userExists = await db.userExists(userId) (tools.ts:57)
EvalUserExists(h) ==
    /\ At(h, "userExists")
    /\ SetHandler(h, [handlers[h] EXCEPT
            !.pc = IF userExists(Graph, handlers[h].userId) THEN "analyze"
                   ELSE "createUser"])
    /\ UNCHANGED <<GraphVars, now, ServerVars, sessions, resp, applied>>

\* await db.createUser(...) (tools.ts:58-68); a rejected write throws to the catch
EvalCreateUser(h) ==
    /\ At(h, "createUser")
    /\ IF createUserFails(Graph, handlers[h].userId)
       THEN /\ Respond(h, handlers[h].userId, "constraint", FALSE)
            /\ UNCHANGED GraphVars
       ELSE /\ Commit(createUser(Graph, handlers[h].userId, now))
            /\ SetHandler(h, [handlers[h] EXCEPT !.pc = "analyze"])
            /\ UNCHANGED resp
    /\ UNCHANGED <<now, ServerVars, sessions, applied>>

\* llm.analyzeConversation answers with the concepts (tools.ts:71-76)
EvalAnalyze(h, evs) ==
    /\ At(h, "analyze")
    /\ SetHandler(h, [pc |-> IF evs = <<>> THEN "touch" ELSE "conceptExists",
                      userId |-> handlers[h].userId, phase |-> "update",
                      todo |-> evs, concepts |-> evs])
    /\ UNCHANGED <<GraphVars, now, ServerVars, sessions, resp, applied>>

\* llm.analyzeConversation answers from a reply of the model (tools.ts:71-76), and
\* updateLearningProfile iterates analysis.concepts (stdio.ts:748): for ... of
\* throws a TypeError on an object without that member, before any statement is
\* run, which the tool's catch answers (tools.ts:112-122)
EvalAnalysis(h, reply) ==
    LET analysis == analyzeConversation(reply, NoArg).value
    IN  IF "concepts" \in DOMAIN analysis
        THEN EvalAnalyze(h, analysis.concepts)
        ELSE /\ At(h, "analyze")
             /\ Respond(h, handlers[h].userId, "type", FALSE)
             /\ UNCHANGED <<GraphVars, now, ServerVars, sessions, applied>>

\* conceptExists of ensureConceptExists, called by updateConceptKnowledge and by
\* createLearningEvent
EvalConceptExists(h) ==
    /\ At(h, "conceptExists")
    /\ SetHandler(h, [handlers[h] EXCEPT
            !.pc = IF conceptExists(Graph, Head(handlers[h].todo).name)
                   THEN (IF handlers[h].phase = "update" THEN "knows" ELSE "insertEvent")
                   ELSE "createConcept"])
    /\ UNCHANGED <<GraphVars, now, ServerVars, sessions, resp, applied>>

\* createConcept of ensureConceptExists
EvalCreateConcept(h) ==
    /\ At(h, "createConcept")
    /\ Commit(createConcept(Graph, Head(handlers[h].todo).name, PlaceholderConcept))
    /\ SetHandler(h, [handlers[h] EXCEPT
            !.pc = IF handlers[h].phase = "update" THEN "knows" ELSE "insertEvent"])
    /\ UNCHANGED <<now, ServerVars, sessions, resp, applied>>

\* the KNOWS statement of updateConceptKnowledge
EvalKnows(h) ==
    LET g == mergeKnows(Graph, handlers[h].userId, Head(handlers[h].todo), now)
    IN  /\ At(h, "knows")
        /\ Commit(g)
        /\ applied' = Record(g, handlers[h].userId, <<Head(handlers[h].todo)>>)
        /\ SetHandler(h, [handlers[h] EXCEPT !.pc = "tracks"])
        /\ UNCHANGED <<now, ServerVars, sessions, resp>>

\* the TRACKS statement of updateConceptKnowledge; then the next concept
EvalTracks(h) ==
    /\ At(h, "tracks")
    /\ Commit(mergeTracks(Graph, handlers[h].userId, Head(handlers[h].todo).name, now))
    /\ SetHandler(h, [handlers[h] EXCEPT
            !.todo = Tail(@),
            !.pc = IF Tail(handlers[h].todo) = <<>> THEN "touch" ELSE "conceptExists"])
    /\ UNCHANGED <<now, ServerVars, sessions, resp, applied>>

\* SET lp.lastUpdated of updateLearningProfile; then the learning events, or the
\* response when there is no concept
EvalTouch(h) ==
    /\ At(h, "touch")
    /\ Commit(touchProfile(Graph, handlers[h].userId, now))
    /\ IF handlers[h].concepts = <<>>
       THEN Respond(h, handlers[h].userId, "none", TRUE)
       ELSE /\ SetHandler(h, [handlers[h] EXCEPT
                    !.pc = "conceptExists", !.phase = "event", !.todo = handlers[h].concepts])
            /\ UNCHANGED resp
    /\ UNCHANGED <<now, ServerVars, sessions, applied>>

\* the statement of createLearningEvent; after the last one the handler responds
EvalInsertEvent(h) ==
    LET ev == Head(handlers[h].todo)
    IN  /\ At(h, "insertEvent")
        /\ Commit(insertLearningEvent(Graph, handlers[h].userId, ev.name, ev.eventType,
                                      ev.details, now))
        /\ IF Tail(handlers[h].todo) = <<>>
           THEN Respond(h, handlers[h].userId, "none", TRUE)
           ELSE /\ SetHandler(h, [handlers[h] EXCEPT
                        !.todo = Tail(@), !.pc = "conceptExists"])
                /\ UNCHANGED resp
        /\ UNCHANGED <<now, ServerVars, sessions, applied>>

\* the positions at which the handler awaits the graph store
StorePositions ==
    {"userExists", "createUser", "conceptExists", "createConcept", "knows", "tracks",
     "touch", "insertEvent"}

\* the concepts of the request's batch whose statements have been run
DoneOf(rec) ==
    IF "concepts" \notin DOMAIN rec THEN {}
    ELSE {rec.concepts[i].name : i \in 1..(Len(rec.concepts) - Len(rec.todo))}

\* as if the batch were one transaction that a failure undoes
EvalStoreFails_Rollback(h) ==
    /\ handlers[h].pc \in StorePositions
    /\ Respond(h, handlers[h].userId, "store", FALSE)
    /\ knows' = [e \in {x \in DOMAIN knows : ~(x[1] = handlers[h].userId
                                                /\ NameOf(x[2]) \in DoneOf(handlers[h]))}
                    |-> knows[e]]
    /\ UNCHANGED <<users, profiles, concepts, topics, belongsTo, prereqFor, tracks,
                   relatedTo, events, now, ServerVars, sessions, applied>>

\* the statement the handler awaits fails: the catch returns the error response
\* (tools.ts:112-122)
EvalStoreFails(h) ==
    /\ handlers[h].pc \in StorePositions
    /\ Respond(h, handlers[h].userId, "store", FALSE)
    /\ UNCHANGED <<GraphVars, now, ServerVars, sessions, applied>>

ServeBatches == {<<>>} \cup {<<e>> : e \in EvidenceOf({"A"}, {3}, {"learned"})}

WithinEventBound == Len(events') <= MaxEvents

\* the awaited graph statements of a request in progress, while the store answers
EvalStores(h) ==
    \/ EvalUserExists(h)
    \/ EvalCreateUser(h)
    \/ EvalConceptExists(h)
    \/ EvalCreateConcept(h)
    \/ EvalKnows(h) /\ WithinEvidenceBound
    \/ EvalTracks(h)
    \/ EvalTouch(h)
    \/ EvalInsertEvent(h) /\ WithinEventBound

\* the steps of a request in progress, while the store answers
EvalRuns(h) ==
    \/ \E evs \in ServeBatches : EvalAnalyze(h, evs)
    \/ EvalStores(h)

EvalStep(h) == EvalRuns(h) \/ EvalStoreFails(h)

\* two requests of one session
ServeNext ==
    \/ \E h \in Handlers : EvalStart(h, "u1")
    \/ \E h \in Handlers : EvalStep(h)

SpecServe == Init /\ [][ServeNext]_vars

\* two requests of two sessions
SessionOf == [h1 |-> "u1", h2 |-> "u2"]

\* the store holds the concept A of the topic T1
SessionsGraph == associateConceptWithTopic(EmptyGraph, "A", "T1", FALSE, 5)

\* datetime() moves on
Tick ==
    /\ now < MaxNow
    /\ now' = now + 1
    /\ UNCHANGED <<GraphVars, resp, applied, handlers, sessions, ServerVars>>

\* the clock is read at the granularity of requests: it moves on while no request
\* is in progress
BetweenRequests == \A h \in Handlers : handlers[h] = Idle

\* the conversations are about A, or about B, which the store does not hold
SessionBatches == {<<e>> : e \in EvidenceOf({"A", "B"}, {3}, {"learned"})}

SessionsNext ==
    \/ \E h \in Handlers : EvalStart(h, SessionOf[h])
    \/ \E h \in Handlers, evs \in SessionBatches : EvalAnalyze(h, evs)
    \/ \E h \in Handlers : EvalStores(h)
    \/ Tick /\ BetweenRequests

SpecSessions == InitWith(SessionsGraph) /\ [][SessionsNext]_vars

\* conversations about two concepts: A of T1, which the store holds, and B
BatchBatches ==
    {<<>>} \cup
    {<<a, b>> : a \in EvidenceOf({"A"}, {3}, {"learned"}),
                b \in EvidenceOf({"B"}, {2}, {"learned"})} \cup
    {<<b, a>> : a \in EvidenceOf({"A"}, {3}, {"learned"}),
                b \in EvidenceOf({"B"}, {2}, {"learned"})}

\* one request at a time, over a store that may fail any statement
BatchNext ==
    \/ EvalStart("h1", "u1")
    \/ \E evs \in BatchBatches : EvalAnalyze("h1", evs)
    \/ EvalStores("h1")
    \/ EvalStoreFails("h1")
    \/ Tick

SpecBatch == InitWith(SessionsGraph) /\ [][BatchNext]_vars

\* two requests of one learner at once, both about A, with different proficiencies
RaceBatches == {<<e>> : e \in EvidenceOf({"A"}, {2, 4}, {"learned"})}

RaceInit == \E g \in {EmptyGraph, SessionsGraph} : InitWith(g)

RaceNext ==
    \/ \E h \in Handlers : EvalStart(h, "u1")
    \/ \E h \in Handlers, evs \in RaceBatches : EvalAnalyze(h, evs)
    \/ \E h \in Handlers : EvalStores(h)

SpecRace == RaceInit /\ [][RaceNext]_vars

\* what the model answers to the analysis: nothing (the call throws), text without
\* JSON, a fence around text that is no JSON, an empty object, an object with
\* another member, an object with the concepts
AnalysisReplies ==
    {ModelThrows} \cup
    [throws : {FALSE},
     content : {<<OtherText>>, <<FenceOpen, OtherText, FenceClose>>, <<"{", "}">>,
                <<"{", MemberRelated, "}">>, <<"{", MemberConcepts, "}">>}]

\* requests whose analysis is computed from the model's reply
AnalysisNext ==
    \/ \E h \in Handlers : EvalStart(h, "u1")
    \/ \E h \in Handlers, reply \in AnalysisReplies : EvalAnalysis(h, reply)
    \/ \E h \in Handlers : EvalStores(h)
    \/ Tick /\ BetweenRequests

SpecAnalysis == Init /\ [][AnalysisNext]_vars

\* the learner u1 has been created
KnownUserGraph == createUser(EmptyGraph, "u1", 0)

\* requests of u1, two at a time, over a store that answers every statement: each
\* request completes without error
StepNext ==
    \/ \E h \in Handlers : EvalStart(h, "u1")
    \/ \E h \in Handlers, evs \in ServeBatches : EvalAnalyze(h, evs)
    \/ \E h \in Handlers : EvalUserExists(h)
    \/ \E h \in Handlers : EvalConceptExists(h)
    \/ \E h \in Handlers : EvalCreateConcept(h)
    \/ \E h \in Handlers : EvalKnows(h) /\ WithinEvidenceBound
    \/ \E h \in Handlers : EvalTracks(h)
    \/ \E h \in Handlers : EvalTouch(h)
    \/ \E h \in Handlers : EvalInsertEvent(h)

SpecStep == InitWith(KnownUserGraph) /\ [][StepNext]_vars

----------------------------------------------------------------------------
(* The get-learning-progress tool (src/src/features/tools.ts:229-325) *)

ProgressTool == "get-learning-progress"

\* the rows of MATCH (u:User {id: $userId})-[:HAS]->(lp) MATCH (topic:Topic {name:
\* $topicName}) of getTopicKnowledge
topicKnowledgeRows(g, userId, topicName) == ProfilesOf(g, userId) \X TopicsNamed(g, topicName)

\* the grouping key of the RETURN: the topic's properties and those of the TRACKS edge
topicKnowledgeKey(g, row) ==
    [name |-> NameOf(row[2]), category |-> g.topics[row[2]].category,
     difficulty |-> g.topics[row[2]].difficulty, summary |-> g.topics[row[2]].summary,
     priority |-> IF row \in DOMAIN g.tracks THEN g.tracks[row].priority ELSE NullInt,
     goal |-> IF row \in DOMAIN g.tracks THEN g.tracks[row].goal ELSE NoArg]

\* collect(DISTINCT {name: c.name, proficiency: k.proficiency, ...}) over the rows
\* of the two OPTIONAL MATCHes: a topic without concept gives one map of nulls
topicKnowledgeConcepts(g, row) ==
    LET cs == {c \in DOMAIN g.concepts : <<c, row[2]>> \in DOMAIN g.belongsTo}
    IN  IF cs = {} THEN {[name |-> NoArg, proficiency |-> NullInt]}
        ELSE {[name |-> NameOf(c),
               proficiency |-> IF <<row[1], c>> \in DOMAIN g.knows
                               THEN g.knows[<<row[1], c>>].proficiency ELSE NullInt] :
                 c \in cs}

\* result.records of getTopicKnowledge (stdio.ts:579-602)
topicKnowledgeRecords(g, userId, topicName) ==
    LET rows == topicKnowledgeRows(g, userId, topicName)
    IN  {[topic |-> key,
          concepts |-> UNION {topicKnowledgeConcepts(g, row) :
                                row \in {r \in rows : topicKnowledgeKey(g, r) = key}}] :
            key \in {topicKnowledgeKey(g, row) : row \in rows}}

\* result.records of getUserOverview (stdio.ts:537-561): one record for the user
userOverviewRecords(g, userId) ==
    {[knownConceptsCount |->
            Cardinality({c \in DOMAIN g.concepts : <<u, c>> \in DOMAIN g.knows}),
      trackedTopicsCount |->
            Cardinality({t \in DOMAIN g.topics : <<u, t>> \in DOMAIN g.tracks}),
      trackedTopics |->
            {[name |-> NameOf(t), priority |-> g.tracks[<<u, t>>].priority] :
                t \in {t \in DOMAIN g.topics : <<u, t>> \in DOMAIN g.tracks}}] :
        u \in ProfilesOf(g, userId)}

\* the handler returns; storeThrew records whether a graph statement of the request
\* failed
ProgressRespond(h, isError, view, data) ==
    /\ SetHandler(h, Idle)
    /\ resp' = [op |-> ProgressTool, threw |-> FALSE, userId |-> handlers[h].userId,
                topic |-> handlers[h].topic, isError |-> isError, view |-> view,
                data |-> data, storeThrew |-> handlers[h].storeThrew]

\* a request arrives (tools.ts:236-239)
ProgressStart(h, userId, topic) ==
    /\ handlers[h] = Idle
    /\ SetHandler(h, [pc |-> "progress.userExists", userId |-> userId, topic |-> topic,
                      storeThrew |-> FALSE])
    /\ UNCHANGED <<GraphVars, now, ServerVars, sessions, resp, applied>>

\* const userExists = await db.userExists(userId) (tools.ts:243-252)
ProgressUserExists(h) ==
    /\ At(h, "progress.userExists")
    /\ IF userExists(Graph, handlers[h].userId)
       THEN /\ SetHandler(h, [handlers[h] EXCEPT !.pc = "progress.getTopicKnowledge"])
            /\ UNCHANGED resp
       ELSE ProgressRespond(h, FALSE, "no-profile", {})
    /\ UNCHANGED <<GraphVars, now, ServerVars, sessions, applied>>

\* topicKnowledge = await db.getTopicKnowledge(userId, topic) (tools.ts:255-256):
\* its first record, or 'Topic knowledge not found' thrown to the inner catch
ProgressTopicKnowledge(h) ==
    /\ At(h, "progress.getTopicKnowledge")
    /\ LET records == topicKnowledgeRecords(Graph, handlers[h].userId, handlers[h].topic)
       IN  IF records = {}
           THEN /\ SetHandler(h, [handlers[h] EXCEPT !.pc = "progress.getUserOverview"])
                /\ UNCHANGED resp
           ELSE \E record \in records : ProgressRespond(h, FALSE, "topic", {record})
    /\ UNCHANGED <<GraphVars, now, ServerVars, sessions, applied>>

\* the statement of getTopicKnowledge fails: the inner catch takes every error for
\* 'topic not found' and goes on to the overview (tools.ts:257-259)
ProgressTopicKnowledgeFails(h) ==
    /\ At(h, "progress.getTopicKnowledge")
    /\ SetHandler(h, [handlers[h] EXCEPT !.pc = "progress.getUserOverview",
                                         !.storeThrew = TRUE])
    /\ UNCHANGED <<GraphVars, now, ServerVars, sessions, resp, applied>>

\* as if the inner catch gave up: the error response whatever the overview holds
ProgressOverview_Error(h) ==
    /\ At(h, "progress.getUserOverview")
    /\ ProgressRespond(h, TRUE, "error", {})
    /\ UNCHANGED <<GraphVars, now, ServerVars, sessions, applied>>

\* const userOverview = await db.getUserOverview(userId) in the inner catch
\* (tools.ts:259-281); 'User overview not found' is thrown to the outer catch
ProgressOverview(h) ==
    /\ At(h, "progress.getUserOverview")
    /\ LET records == userOverviewRecords(Graph, handlers[h].userId)
       IN  IF records = {}
           THEN ProgressRespond(h, TRUE, "error", {})
           ELSE \E record \in records : ProgressRespond(h, FALSE, "overview", {record})
    /\ UNCHANGED <<GraphVars, now, ServerVars, sessions, applied>>

\* the statement of userExists or of getUserOverview fails: the outer catch returns
\* the error response (tools.ts:314-324)
ProgressStoreFails(h) ==
    /\ handlers[h].pc \in {"progress.userExists", "progress.getUserOverview"}
    /\ SetHandler(h, Idle)
    /\ resp' = [op |-> ProgressTool, threw |-> FALSE, userId |-> handlers[h].userId,
                topic |-> handlers[h].topic, isError |-> TRUE, view |-> "error",
                data |-> {}, storeThrew |-> TRUE]
    /\ UNCHANGED <<GraphVars, now, ServerVars, sessions, applied>>

\* the store when the requests arrive: u1 has learned A of the topic T1
ProgressGraph ==
    updateLearningProfile(createUser(SessionsGraph, "u1", 0), "u1",
                          <<[name |-> "A", proficiency |-> 3, eventType |-> "learned",
                             details |-> "d"]>>, 0)

ProgressNext ==
    \/ \E h \in Handlers, userId \in UserIds, topic \in TopicNames :
            ProgressStart(h, userId, topic)
    \/ \E h \in Handlers : ProgressUserExists(h)
    \/ \E h \in Handlers : ProgressTopicKnowledge(h)
    \/ \E h \in Handlers : ProgressTopicKnowledgeFails(h)
    \/ \E h \in Handlers : ProgressOverview(h)
    \/ \E h \in Handlers : ProgressStoreFails(h)

SpecProgress == InitWith(ProgressGraph) /\ [][ProgressNext]_vars

----------------------------------------------------------------------------
(* The read aggregations (src/src/transport/stdio.ts:534-701, 877-909) *)

\* result.records of getConceptKnowledge (stdio.ts:619-637): one record per value
\* of the grouping keys, with the names of the concept's topics
getConceptKnowledge(g, userId, conceptNames) ==
    LET rows == ProfilesOf(g, userId) \X {c \in DOMAIN g.concepts : NameOf(c) \in conceptNames}
        known(r) == r \in DOMAIN g.knows
        key(r) == [name |-> NameOf(r[2]),
                   description |-> g.concepts[r[2]].description,
                   complexity |-> g.concepts[r[2]].complexity,
                   proficiency |-> IF known(r) THEN g.knows[r].proficiency ELSE NullInt,
                   knowledgeStage |-> IF known(r) THEN g.knows[r].knowledgeStage ELSE NoArg,
                   firstSeen |-> IF known(r) THEN g.knows[r].firstSeen ELSE NullInt,
                   lastUpdated |-> IF known(r) THEN g.knows[r].lastUpdated ELSE NullInt]
    IN  {[concept |-> k,
          topics |-> {NameOf(t) : t \in {t \in DOMAIN g.topics :
                        \E r \in rows : key(r) = k /\ <<r[2], t>> \in DOMAIN g.belongsTo}}] :
            k \in {key(r) : r \in rows}}

\* getRelatedConcepts (stdio.ts:877-908): the RELATED_TO edges of the named concept in
\* either direction; without a row the method returns the empty list itself
getRelatedConcepts(g, userId, conceptName) ==
    LET edges == {e \in DOMAIN g.relatedTo :
                    NameOf(e[1]) = conceptName \/ NameOf(e[2]) = conceptName}
        ends(e) == {x \in {e[1], e[2]} : NameOf(x) = conceptName}
        entry(e, related, lp) ==
            [name |-> NameOf(related),
             relationshipType |-> g.relatedTo[e].relationshipType,
             strength |-> g.relatedTo[e].strength,
             contextualNote |-> g.relatedTo[e].contextualNote,
             known |-> <<lp, related>> \in DOMAIN g.knows,
             proficiency |-> IF <<lp, related>> \in DOMAIN g.knows
                             THEN g.knows[<<lp, related>>].proficiency ELSE NullInt]
        lps == IF ProfilesOf(g, userId) = {} THEN {NoArg} ELSE ProfilesOf(g, userId)
    IN  [sourceConcept |-> conceptName,
         relatedConcepts |->
            {entry(e, IF c = e[1] THEN e[2] ELSE e[1], lp) :
                <<e, c, lp>> \in {x \in edges \X (DOMAIN g.concepts) \X lps :
                                    x[2] \in ends(x[1])}}]

\* as if the pattern did not tie the event to the user: MATCH (:User)-[:EXPERIENCED]->(le)
recentEventsOf_Everyone(g, userId) ==
    {i \in DOMAIN g.events : ProfilesOf(g, userId) # {}}

\* the rows of getRecentLearningEvents: the events the user of a profile EXPERIENCED
recentEventsOf(g, userId) ==
    {i \in DOMAIN g.events : g.events[i].userId \in ProfilesOf(g, userId)}

\* ORDER BY le.timestamp DESC LIMIT $limit: every order the store may give to events
\* of one timestamp
RECURSIVE newestFirst(_, _, _)
newestFirst(g, E, limit) ==
    IF limit = 0 \/ E = {} THEN {<<>>}
    ELSE LET newest == {i \in E : \A j \in E : g.events[i].timestamp >= g.events[j].timestamp}
         IN  UNION {{<<i>> \o s : s \in newestFirst(g, E \ {i}, limit - 1)} : i \in newest}

\* the default of the parameter limit (stdio.ts:677)
DefaultLimit == 10

\* result.records of getRecentLearningEvents (stdio.ts:677-701), as the positions of
\* the events in their order of creation
getRecentLearningEvents(g, userId, limit) ==
    newestFirst(g, recentEventsOf(g, userId), IF limit = NullInt THEN DefaultLimit ELSE limit)

ReadOps ==
    {"getUserOverview", "getTopicKnowledge", "getConceptKnowledge", "getRelatedConcepts",
     "getRecentLearningEvents", "findPrerequisitesNotKnown", "getRecommendedNextConcepts"}

\* a read returns its records; getUserOverview and getTopicKnowledge throw 'not
\* found' when the statement gives no record and return the first record otherwise
ReadReturns(op, userId, arg, threw, records) ==
    /\ Returns([op |-> op, threw |-> threw, userId |-> userId, arg |-> arg,
                records |-> records])
    /\ UNCHANGED <<GraphVars, now, ServerVars, sessions, applied, handlers>>

GetUserOverview(userId) ==
    LET records == userOverviewRecords(Graph, userId)
    IN  IF records = {} THEN ReadReturns("getUserOverview", userId, NoArg, TRUE, {})
        ELSE \E r \in records : ReadReturns("getUserOverview", userId, NoArg, FALSE, {r})

GetTopicKnowledge(userId, topicName) ==
    LET records == topicKnowledgeRecords(Graph, userId, topicName)
    IN  IF records = {} THEN ReadReturns("getTopicKnowledge", userId, topicName, TRUE, {})
        ELSE \E r \in records : ReadReturns("getTopicKnowledge", userId, topicName, FALSE, {r})

GetConceptKnowledge_Ensuring(userId, conceptNames) ==
    /\ Commit(ensureConceptExists(Graph, CHOOSE n \in conceptNames : TRUE))
    /\ Returns([op |-> "getConceptKnowledge", threw |-> FALSE, userId |-> userId,
                arg |-> conceptNames,
                records |-> getConceptKnowledge(Graph, userId, conceptNames)])
    /\ UNCHANGED <<now, ServerVars, sessions, applied, handlers>>

GetConceptKnowledge(userId, conceptNames) ==
    ReadReturns("getConceptKnowledge", userId, conceptNames, FALSE,
                getConceptKnowledge(Graph, userId, conceptNames))

GetRelatedConcepts(userId, conceptName) ==
    ReadReturns("getRelatedConcepts", userId, conceptName, FALSE,
                {getRelatedConcepts(Graph, userId, conceptName)})

GetRecentLearningEvents(userId, limit) ==
    \E s \in getRecentLearningEvents(Graph, userId, limit) :
        ReadReturns("getRecentLearningEvents", userId, limit, FALSE, s)

\* createLearningEvent (stdio.ts:703-731)
CreateLearningEvent(userId, conceptName, eventType, details) ==
    /\ Commit(createLearningEvent(Graph, userId, conceptName, eventType, details, now))
    /\ Returns(Void("createLearningEvent"))
    /\ UNCHANGED <<now, ServerVars, sessions, applied, handlers>>

ReadConceptSets == {{"A"}, {"A", "C"}}
ReadLimits == {NullInt, 1}

\* the writes that fill the store, and every read for users, topics and concepts
\* that exist and that do not
ReadsNext ==
    \/ CreateUser("u1")
    \/ AssociateConceptWithTopic("A", "T1", FALSE, 5)
    \/ SetConceptPrerequisite("B", "A", 5, "")
    \/ RelateConceptsTogether("B", "A", "builds_on", 5, "")
    \/ \E ev \in EvidenceOf({"A"}, {3}, {"learned"}) :
            UpdateLearningProfile("u1", <<ev>>) /\ WithinEvidenceBound
    \/ CreateLearningEvent("u1", "A", "learned", "d") /\ WithinEventBound
    \/ \E u \in UserIds : GetUserOverview(u)
    \/ \E u \in UserIds, t \in TopicNames : GetTopicKnowledge(u, t)
    \/ \E u \in UserIds, ns \in ReadConceptSets : GetConceptKnowledge(u, ns)
    \/ \E u \in UserIds, c \in ConceptNames : GetRelatedConcepts(u, c)
    \/ \E u \in UserIds, limit \in ReadLimits : GetRecentLearningEvents(u, limit)
    \/ \E u \in UserIds, ns \in ReadConceptSets : FindPrerequisitesNotKnown(u, ns)
    \/ \E u \in UserIds, t \in {NoArg, "T1"} : GetRecommendedNextConcepts(u, t)

SpecReads == Init /\ [][ReadsNext]_vars

\* createTopic (stdio.ts:119-155)
CreateTopic(name, data) ==
    /\ Commit(createTopic(Graph, name, data))
    /\ Returns(Void("createTopic"))
    /\ UNCHANGED <<now, ServerVars, sessions, applied, handlers>>

\* ensureConceptExists (stdio.ts:262-276), called on its own
EnsureConceptExists(conceptName) ==
    /\ Commit(ensureConceptExists(Graph, conceptName))
    /\ Returns([op |-> "ensureConceptExists", threw |-> FALSE, name |-> conceptName])
    /\ UNCHANGED <<now, ServerVars, sessions, applied, handlers>>

\* ensureTopicExists (stdio.ts:179-191), called on its own with the default category
EnsureTopicExists(topicName) ==
    /\ Commit(ensureTopicExists(Graph, topicName))
    /\ Returns([op |-> "ensureTopicExists", threw |-> FALSE, name |-> topicName])
    /\ UNCHANGED <<now, ServerVars, sessions, applied, handlers>>

\* a topic as a caller of createTopic describes it
GivenTopic == [category |-> "language", difficulty |-> 5, summary |-> "given"]

EnsureNames == {"A", "B"}
EnsureTopics == {"T1", "T2"}

\* concepts and topics created with their data, one call after the other, and
\* ensured whether they exist or not
EnsureNext ==
    \/ /\ Cardinality(DOMAIN concepts) < MaxConcepts
       /\ CreateConcept("A", ConceptDataOf(2))
    \/ /\ Cardinality(DOMAIN topics) < MaxConcepts
       /\ CreateTopic("T1", GivenTopic)
    \/ \E c \in EnsureNames : EnsureConceptExists(c)
    \/ \E t \in EnsureTopics : EnsureTopicExists(t)
    \/ \E c \in EnsureNames : ConceptExists(c)
    \/ \E t \in EnsureTopics : TopicExists(t)

SpecEnsure == Init /\ [][EnsureNext]_vars

----------------------------------------------------------------------------
(* The sessions of the driver over the calls of a connection. *)

MaxSessions == 2

\* initializeSchema (stdio.ts:84-110): the constraints are created in a session of
\* their own, closed in finally
initializeSchema(n, schemaFails) == [threw |-> schemaFails, sessions |-> withSession(n)]

\* initialize (stdio.ts:68-82): session.close() follows the awaited RETURN 1 inside
\* the try, and the catch logs and rethrows
initialize(n, testFails, schemaFails) ==
    LET session == openSession(n)
    IN  IF testFails
        THEN [threw |-> TRUE, sessions |-> session]
        ELSE initializeSchema(closeSession(session), schemaFails)

Initialize(testFails, schemaFails) ==
    /\ sessions < MaxSessions
    /\ sessions' = initialize(sessions, testFails, schemaFails).sessions
    /\ Returns([op |-> "initialize", threw |-> initialize(sessions, testFails, schemaFails).threw])
    /\ UNCHANGED <<GraphVars, now, ServerVars, applied, handlers>>

\* associateConceptWithTopic (stdio.ts:287-331) when one of its statements fails:
\* in an exists check, in the creation of a placeholder or in the MERGE, after
\* which the catch rethrows and finally closes the session
AssociateConceptWithTopicFails(conceptName, topicName) ==
    /\ \E g \in {Graph, ensureConceptExists(Graph, conceptName),
                  ensureTopicExists(ensureConceptExists(Graph, conceptName), topicName)} :
            Commit(g)
    /\ Returns([op |-> "associateConceptWithTopic", threw |-> TRUE])
    /\ sessions' = withSession(sessions)
    /\ UNCHANGED <<now, ServerVars, applied, handlers>>

ScopeEvidence == {<<>>} \cup {<<e>> : e \in EvidenceOf({"A"}, {3}, {"learned"})}

\* a connection that is initialized and used, over a store that may fail
ScopeNext ==
    \/ \E testFails \in BOOLEAN, schemaFails \in BOOLEAN : Initialize(testFails, schemaFails)
    \/ CreateUser("u1")
    \/ \E c \in {"A", "B"}, t \in {"T1", "T2"}, p \in BOOLEAN :
            AssociateConceptWithTopic(c, t, p, 5)
    \/ \E c \in {"A", "B"}, t \in {"T1", "T2"} : AssociateConceptWithTopicFails(c, t)
    \/ \E evs \in ScopeEvidence : UpdateLearningProfile("u1", evs) /\ WithinEvidenceBound

SpecScope == Init /\ [][ScopeNext]_vars

\* the store holds A of T1, A as prerequisite of B, and B related to A
UpsertGraph ==
    relateConceptsTogether(
        setConceptPrerequisite(associateConceptWithTopic(EmptyGraph, "A", "T1", FALSE, 5),
                               "A", "B", 5, ""),
        "B", "A", "similar", 5, "")

UpsertStrengths == {5, 8}
UpsertTexts == {"", "x"}
UpsertTypes == {"similar", "builds_on"}

\* the three associations applied again, with the same and with other attributes
UpsertNext ==
    \/ \E p \in BOOLEAN, i \in UpsertStrengths : AssociateConceptWithTopic("A", "T1", p, i)
    \/ \E s \in UpsertStrengths, x \in UpsertTexts : SetConceptPrerequisite("A", "B", s, x)
    \/ \E ty \in UpsertTypes, s \in UpsertStrengths, x \in UpsertTexts :
            RelateConceptsTogether("B", "A", ty, s, x)

SpecUpsert == InitWith(UpsertGraph) /\ [][UpsertNext]_vars

FrameAssociations == {<<"A", "T1">>, <<"B", "T2">>}
FrameEvidence == EvidenceOf({"A", "B"}, {3}, {"learned", "mastered"})

\* evidence for concepts of two topics, at different times, over an empty store or
\* one that holds TRACKS edges of priority 5 and 4
FrameNext ==
    \/ CreateUser("u1")
    \/ \E ct \in FrameAssociations : AssociateConceptWithTopic(ct[1], ct[2], FALSE, 5)
    \/ \E ev \in FrameEvidence : UpdateLearningProfile("u1", <<ev>>) /\ WithinEvidenceBound
    \/ Tick

SpecFrame == RecInit /\ [][FrameNext]_vars

AuditEventTypes == {"learned", "confused"}
AuditLimits == {NullInt, 0, 1, 2}

\* learning events of two users at different times, and the view of them
AuditNext ==
    \/ \E u \in UserIds : CreateUser(u)
    \/ \E u \in UserIds, ty \in AuditEventTypes :
            CreateLearningEvent(u, "A", ty, "d") /\ WithinEventBound
    \/ \E u \in UserIds, limit \in AuditLimits : GetRecentLearningEvents(u, limit)
    \/ Tick

SpecAudit == Init /\ [][AuditNext]_vars

\* evidence and events for u1, who may have been created, and for u2, who never is
UnknownEvidence == EvidenceOf({"A", "B"}, {3}, {"learned"})

UnknownNext ==
    \/ CreateUser("u1")
    \/ AssociateConceptWithTopic("A", "T1", FALSE, 5)
    \/ \E u \in UserIds, ev \in UnknownEvidence :
            UpdateLearningProfile(u, <<ev>>) /\ WithinEvidenceBound
    \/ \E u \in UserIds, c \in {"A", "B"} :
            CreateLearningEvent(u, c, "learned", "d") /\ WithinEventBound
    \/ Tick

SpecUnknown == Init /\ [][UnknownNext]_vars

----------------------------------------------------------------------------
(* The SSE transport (src/src/transport/sse.ts): the table of transports and *)
(* the three routes.  Every route leaves its HTTP answer in resp.            *)

\* SSE connections beyond this number are not accepted
MaxConnections == 3

\* transport.sessionId of the connections, in the order of their creation: each
\* is new
SessionIds == <<"s1", "s2", "s3", "s4">>

\* names that every object inherits from Object.prototype
PrototypeKeys == {"constructor", "toString"}

Undefined == [kind |-> "undefined"]
Inherited == [kind |-> "inherited"]
Transport(sessionId) == [kind |-> "transport", sessionId |-> sessionId]

\* transports[sessionId], transports being a plain object ({}, sse.ts:26): an own
\* property, else a property of Object.prototype, else undefined
lookup(table, key) ==
    IF key \in DOMAIN table THEN table[key]
    ELSE IF key \in PrototypeKeys THEN Inherited
    ELSE Undefined

\* GET /sse (sse.ts:29-54)
handleSse ==
    /\ opened < MaxConnections
    /\ opened' = opened + 1
    /\ transports' = Put(transports, SessionIds[opened + 1], Transport(SessionIds[opened + 1]))
    /\ Returns([op |-> "GET /sse", threw |-> FALSE, status |-> 200,
                sessionId |-> SessionIds[opened + 1]])
    /\ UNCHANGED <<GraphVars, now, sessions, applied, handlers, proc>>

\* res.on('close', ...) of a connection (sse.ts:45-48)
resClose(sessionId) ==
    /\ sessionId \in DOMAIN transports
    /\ transports' = [k \in (DOMAIN transports) \ {sessionId} |-> transports[k]]
    /\ UNCHANGED <<GraphVars, now, sessions, resp, applied, handlers, opened, proc>>

\* what handleMessages answers, and the transport whose handlePostMessage it called
Answer(status, handledBy) ==
    [op |-> "POST /messages", threw |-> FALSE, status |-> status, handledBy |-> handledBy]

\* POST /messages?sessionId=... (sse.ts:57-74); handlePostMessage of the SDK
\* answers the request itself or throws; calling it on a value that is no
\* transport throws a TypeError
handleMessages(sessionId) ==
    /\ IF sessionId = NoArg \/ lookup(transports, sessionId) = Undefined
       THEN Returns(Answer(400, NoArg))
       ELSE IF lookup(transports, sessionId).kind = "transport"
       THEN \E status \in {202, 500} :
                Returns(Answer(status, lookup(transports, sessionId).sessionId))
       ELSE Returns(Answer(500, NoArg))
    /\ UNCHANGED <<GraphVars, now, sessions, applied, handlers, ServerVars>>

\* GET /health (sse.ts:77-82)
handleHealthCheck ==
    /\ Returns([op |-> "GET /health", threw |-> FALSE, status |-> 200,
                connections |-> Cardinality(DOMAIN transports)])
    /\ UNCHANGED <<GraphVars, now, sessions, applied, handlers, ServerVars>>

\* the session ids a client may send: none, the ids the server handed out, and
\* ids it never did
PostIds == {NoArg, "unknown", "constructor"} \cup {SessionIds[i] : i \in 1..MaxConnections}

SseNext ==
    \/ handleSse
    \/ \E sessionId \in PostIds : resClose(sessionId)
    \/ \E sessionId \in PostIds : handleMessages(sessionId)
    \/ handleHealthCheck

SpecSse == Init /\ [][SseNext]_vars

-----------------------------------------------------------------------------
(* The process: main, shutdown, and the signal and error handlers *)

\* the calls of shutdown made by the signal and error listeners that are followed
MaxShutdowns == 2

\* the values of --transport= or TRANSPORT_TYPE; "http" stands for every value that
\* main does not know
TransportTypes == {"stdio", "sse", "http"}

\* the transports main sets up
Supported == {"stdio", "sse"}

\* how an awaited promise settles
Settled == {"resolves", "rejects"}

\* McpServerInstance.initialize, as main awaits it: the class is outside the
\* sources, so that the call is known by its outcomes only
serverInitialize == Settled

\* McpServerInstance.getInstance().terminate(), as shutdown awaits it: the class is
\* outside the sources; a throwing getInstance counts as "rejects", and that the
\* promise settles is the fairness condition of SpecShutdownFair
terminate == Settled

\* main is called when the module is loaded; no transport is started
Starting(transportType) ==
    [main |-> "initialize", transportType |-> transportType, transport |-> "none",
     shutdowns |-> <<>>, exitCode |-> NullInt, exitedBy |-> NoExit]

Running == proc.exitCode = NullInt

\* where main stands after a failed start: rejected by initialize, in its catch
\* block, or in the branch of the unsupported transport type
FailedStart == {"rejected", "caught", "unsupported"}

\* shutdown(exitCode) as far as its await of terminate
shutdown(p, exitCode, cause) ==
    [p EXCEPT !.shutdowns = Append(@, [exitCode |-> exitCode, cause |-> cause])]

exitCodeOf_Requested(exitCode, terminated) == exitCode

\* the code shutdown hands to process.exit
exitCodeOf(exitCode, terminated) == IF terminated = "rejects" THEN 1 ELSE exitCode

\* the code each listener of process.on passes to shutdown
listener(event) ==
    CASE event = "SIGINT" -> 0
      [] event = "SIGTERM" -> 0
      [] event = "uncaughtException" -> 1
      [] event = "unhandledRejection" -> 1

ProcessEvents == {"SIGINT", "SIGTERM", "uncaughtException", "unhandledRejection"}

\* main awaits initialize outside its try: a rejection rejects main, whose catch
\* handler calls shutdown(1)
mainInitialize(initialized) ==
    /\ Running
    /\ proc.main = "initialize"
    /\ initialized \in serverInitialize
    /\ proc' = IF initialized = "resolves"
               THEN [proc EXCEPT !.main = "setup"]
               ELSE shutdown([proc EXCEPT !.main = "rejected"], 1, "main")
    /\ UNCHANGED <<GraphVars, now, resp, applied, handlers, sessions, transports, opened>>

\* main sets up the transport of a supported type; a rejected setup is caught and
\* answered by shutdown(1)
mainSetup(setup) ==
    /\ Running
    /\ proc.main = "setup"
    /\ proc.transportType \in Supported
    /\ setup \in Settled
    /\ proc' = IF setup = "resolves"
               THEN [proc EXCEPT !.main = "serving", !.transport = proc.transportType]
               ELSE shutdown([proc EXCEPT !.main = "caught"], 1, "main")
    /\ UNCHANGED <<GraphVars, now, resp, applied, handlers, sessions, transports, opened>>

\* main logs an unsupported transport type and calls shutdown(1)
mainUnsupported ==
    /\ Running
    /\ proc.main = "setup"
    /\ proc.transportType \notin Supported
    /\ proc' = shutdown([proc EXCEPT !.main = "unsupported"], 1, "main")
    /\ UNCHANGED <<GraphVars, now, resp, applied, handlers, sessions, transports, opened>>

\* a signal, an uncaught exception or an unhandled rejection: its listener calls
\* shutdown
processOn(event) ==
    /\ Running
    /\ Len(proc.shutdowns) < MaxShutdowns
    /\ proc' = shutdown(proc, listener(event), event)
    /\ UNCHANGED <<GraphVars, now, resp, applied, handlers, sessions, transports, opened>>

\* the terminate of the i-th call of shutdown settles, and that call reaches
\* process.exit
shutdownExits(i, terminated) ==
    /\ Running
    /\ i \in DOMAIN proc.shutdowns
    /\ terminated \in terminate
    /\ proc' = [proc EXCEPT
                   !.exitCode = exitCodeOf(proc.shutdowns[i].exitCode, terminated),
                   !.exitedBy = [cause |-> proc.shutdowns[i].cause,
                                 threw |-> terminated = "rejects"]]
    /\ UNCHANGED <<GraphVars, now, resp, applied, handlers, sessions, transports, opened>>

ShutdownInit ==
    /\ StoreInit(EmptyGraph)
    /\ transports = EmptyFn
    /\ opened = 0
    /\ \E transportType \in TransportTypes : proc = Starting(transportType)

ShutdownNext ==
    \/ \E initialized \in Settled : mainInitialize(initialized)
    \/ \E setup \in Settled : mainSetup(setup)
    \/ mainUnsupported
    \/ \E event \in ProcessEvents : processOn(event)
    \/ \E i \in 1..(MaxShutdowns + 1), terminated \in Settled : shutdownExits(i, terminated)

SpecShutdown == ShutdownInit /\ [][ShutdownNext]_vars

\* every terminate that shutdown awaits settles
TerminateSettles ==
    WF_vars(\E i \in 1..(MaxShutdowns + 1), terminated \in Settled : shutdownExits(i, terminated))

SpecShutdownFair == ShutdownInit /\ [][ShutdownNext]_vars /\ TerminateSettles

----------------------------------------------------------------------------
(* Claims *)

MaxOf(S) == CHOOSE m \in S : \A x \in S : x <= m

\* C1: no step lowers the proficiency stored on a KNOWS edge, and no step removes
\* the edge: after every applyEvidence the stored proficiency is at least what it
\* was before.
C1_MonotonicProficiency ==
    [][\A e \in DOMAIN knows :
          e \in DOMAIN knows' /\ knows'[e].proficiency >= knows[e].proficiency]_vars

\* a KNOWS edge whose latest evidence was ("learned", 1) still stores 5
C1_Witness ==
    \E e \in DOMAIN knows :
        /\ knows[e].evidenceCount >= 2
        /\ knows[e].knowledgeStage = "aware"
        /\ knows[e].proficiency = 5

\* C2: the proficiency stored on a KNOWS edge is the maximum of the proficiencies
\* of all the evidence applied to that (user, concept) so far.
C2_MaxMerge ==
    \A e \in DOMAIN knows :
        /\ e \in DOMAIN applied
        /\ applied[e] # {}
        /\ knows[e].proficiency = MaxOf(applied[e])

\* three different proficiencies were applied to one edge, the lowest one last
C2_Witness ==
    \E e \in DOMAIN knows :
        /\ applied[e] = {1, 3, 5}
        /\ knows[e].knowledgeStage = "aware"
        /\ knows[e].proficiency = 5

StageTable(eventType, p) ==
    CASE eventType = "learned" ->
            <<"aware", "aware", "aware", "learning", "learning", "learning">>[p + 1]
      [] eventType = "practiced" ->
            <<"learning", "learning", "learning", "learning", "practicing",
              "practicing">>[p + 1]
      [] eventType = "confused" -> "learning"
      [] eventType = "mastered" -> "mastered"
      [] OTHER ->
            <<"aware", "aware", "learning", "learning", "practicing", "mastered">>[p + 1]

\* C10: for every event type and every proficiency 0..5 getKnowledgeStage returns
\* the label of the stage table, whatever the graph holds, and a call changes
\* nothing in the graph.
C10_StageTable ==
    /\ [](resp.op = "getKnowledgeStage" =>
            resp.stage = StageTable(resp.eventType, resp.proficiency))
    /\ [][resp'.op = "getKnowledgeStage" => UNCHANGED <<GraphVars, now, applied>>]_vars

\* ("learned", 2) gave "aware" on a graph that holds a KNOWS edge
C10_Witness ==
    /\ resp.op = "getKnowledgeStage"
    /\ resp.eventType = "learned"
    /\ resp.proficiency = 2
    /\ resp.stage = "aware"
    /\ DOMAIN knows # {}

\* C3 (as claimed): a prerequisite that the learner knows with proficiency >= 3 is in
\* no missingPrerequisites list returned by findPrerequisitesNotKnown.
C3_KnownPrerequisiteExcluded ==
    resp.op = "findPrerequisitesNotKnown" =>
        \A rec \in resp.records : \A m \in rec.missingPrerequisites :
            ~ \E q \in DOMAIN concepts :
                /\ NameOf(q) = m.name
                /\ <<resp.userId, q>> \in DOMAIN knows
                /\ knows[<<resp.userId, q>>].proficiency >= 3

Unmet(u, q) == <<u, q>> \notin DOMAIN knows \/ knows[<<u, q>>].proficiency < 3

\* C4: for an existing user, every prerequisite of a requested target that the
\* learner does not know, or knows with proficiency < 3, is in that target's
\* missingPrerequisites with the strength and explanation of its edge.
C4_UnmetPrerequisiteReported ==
    (resp.op = "findPrerequisitesNotKnown" /\ resp.userId \in DOMAIN users) =>
        \A c \in DOMAIN concepts, q \in DOMAIN concepts :
            (/\ NameOf(c) \in resp.conceptNames
             /\ <<q, c>> \in DOMAIN prereqFor
             /\ Unmet(resp.userId, q)) =>
                \E rec \in resp.records :
                    /\ rec.conceptName = NameOf(c)
                    /\ \E m \in rec.missingPrerequisites :
                        /\ m.name = NameOf(q)
                        /\ m.strength = prereqFor[<<q, c>>].strength
                        /\ m.explanation = prereqFor[<<q, c>>].explanation

\* B has the prerequisites A (known with proficiency 2) and C (not known), with
\* different strengths, and both are reported for B
C4_Witness ==
    /\ resp.op = "findPrerequisitesNotKnown"
    /\ resp.userId = "u1"
    /\ "B" \in resp.conceptNames
    /\ <<"u1", <<"A", 1>>>> \in DOMAIN knows
    /\ knows[<<"u1", <<"A", 1>>>>].proficiency = 2
    /\ <<"u1", <<"C", 1>>>> \notin DOMAIN knows
    /\ \E rec \in resp.records :
        /\ rec.conceptName = "B"
        /\ \E m1 \in rec.missingPrerequisites, m2 \in rec.missingPrerequisites :
            /\ m1.name = "A" /\ m1.strength = 8 /\ m1.proficiency = 2
            /\ m2.name = "C" /\ m2.strength = 5 /\ m2.proficiency = NullInt

Recommended == resp.op = "getRecommendedNextConcepts"

Known(u, c) == <<u, c>> \in DOMAIN knows

PrerequisitesKnown(u, c) ==
    \A q \in DOMAIN concepts : <<q, c>> \in DOMAIN prereqFor => Known(u, q)

ActivelyTracked(u, t) == <<u, t>> \in DOMAIN tracks /\ tracks[<<u, t>>].active

EffectivePriorities(u, c) ==
    LET ts == {t \in DOMAIN topics : <<c, t>> \in DOMAIN belongsTo}
    IN  {tracks[<<u, t>>].priority : t \in {x \in ts : ActivelyTracked(u, x)}}
        \cup (IF ts = {} \/ \E t \in ts : ~ActivelyTracked(u, t) THEN {3} ELSE {})

LastFor(evs, name) ==
    evs[CHOOSE i \in DOMAIN evs :
            /\ evs[i].name = name
            /\ \A j \in DOMAIN evs : evs[j].name = name => j <= i]

\* C11: after updateLearningProfile the knowledgeStage stored on each KNOWS edge of
\* the user to a concept the batch names is getKnowledgeStage of the last evidence
\* of the batch for that concept, whatever proficiency and stage were stored before.
C11_StageFollowsLatest ==
    [][\A u \in UserIds, evs \in BatchesOf(RegressEvidence) :
          UpdateLearningProfile(u, evs) =>
              \A e \in DOMAIN knows' :
                  (e[1] = u /\ \E i \in DOMAIN evs : evs[i].name = NameOf(e[2])) =>
                      knows'[e].knowledgeStage =
                          getKnowledgeStage(LastFor(evs, NameOf(e[2])).eventType,
                                            LastFor(evs, NameOf(e[2])).proficiency)]_vars

\* an edge that received evidence of proficiency 1 and 5 only is at stage "learning"
\* with proficiency 5: of RegressEvidence that is "mastered" evidence (5) followed by
\* "confused" evidence (1), so the edge was "mastered" and moved back
C11_Witness ==
    /\ <<"u1", <<"A", 1>>>> \in DOMAIN knows
    /\ knows[<<"u1", <<"A", 1>>>>].knowledgeStage = "learning"
    /\ knows[<<"u1", <<"A", 1>>>>].proficiency = 5
    /\ applied[<<"u1", <<"A", 1>>>>] = {1, 5}

\* the number of pieces of evidence of a batch that name the concept
PiecesFor(evs, name) == Cardinality({i \in DOMAIN evs : evs[i].name = name})

\* C12: evidenceCount is at least 1 on every KNOWS edge and never decreases; a
\* batch of evidence for a user raises it, on each of the user's KNOWS edges, by the
\* number of pieces of evidence for the edge's concept, counting from 0 for an edge
\* the batch creates, and leaves every other edge's count as it was.
C12_EvidenceCount ==
    /\ [](\A e \in DOMAIN knows : knows[e].evidenceCount >= 1)
    /\ [][\A e \in DOMAIN knows :
              e \in DOMAIN knows' /\ knows'[e].evidenceCount >= knows[e].evidenceCount]_vars
    /\ [][\A u \in UserIds, evs \in BatchesOf(EvEvidence) :
              UpdateLearningProfile(u, evs) =>
                  \A e \in DOMAIN knows' :
                      knows'[e].evidenceCount =
                          (IF e \in DOMAIN knows THEN knows[e].evidenceCount ELSE 0)
                          + (IF e[1] = u THEN PiecesFor(evs, NameOf(e[2])) ELSE 0)]_vars

\* one learner's edge has received three pieces of evidence, another learner's one
C12_Witness ==
    /\ <<"u1", <<"A", 1>>>> \in DOMAIN knows
    /\ <<"u2", <<"A", 1>>>> \in DOMAIN knows
    /\ knows[<<"u1", <<"A", 1>>>>].evidenceCount = 3
    /\ knows[<<"u2", <<"A", 1>>>>].evidenceCount = 1

\* C13: after evidence for a concept is applied for an existing user, the user's
\* profile has an active TRACKS edge to every topic the concept belongs to: an edge
\* that was absent is created with priority 3, goal "Learning" and active = true, an
\* edge that was there is set to active = true and otherwise left as it was.
C13_TrackingFollowsEvidence ==
    [][\A ev \in TrackEvidence :
          (UpdateLearningProfile("u1", <<ev>>) /\ "u1" \in DOMAIN users) =>
              \A c \in DOMAIN concepts', t \in DOMAIN topics' :
                  (NameOf(c) = ev.name /\ <<c, t>> \in DOMAIN belongsTo') =>
                      /\ <<"u1", t>> \in DOMAIN tracks'
                      /\ tracks'[<<"u1", t>>].active
                      /\ IF <<"u1", t>> \in DOMAIN tracks
                         THEN tracks'[<<"u1", t>>] =
                                  [tracks[<<"u1", t>>] EXCEPT !.active = TRUE]
                         ELSE /\ tracks'[<<"u1", t>>].priority = 3
                              /\ tracks'[<<"u1", t>>].goal = "Learning"]_vars

\* evidence for A, of T2 and T3: the edge to T2, stored with priority 4 and
\* active = false, is active again with its priority, and an edge to T3 was created
C13_Witness ==
    /\ resp.op = "updateLearningProfile"
    /\ <<"u1", <<"T2", 1>>>> \in DOMAIN tracks
    /\ tracks[<<"u1", <<"T2", 1>>>>].active
    /\ tracks[<<"u1", <<"T2", 1>>>>].priority = 4
    /\ <<"u1", <<"T3", 1>>>> \in DOMAIN tracks
    /\ tracks[<<"u1", <<"T3", 1>>>>] =
            [since |-> 0, active |-> TRUE, priority |-> 3, goal |-> "Learning"]

\* every pair of nodes of the two names is joined by an edge with the attributes
Joined(edges, froms, tos, attrs) ==
    \A a \in froms, b \in tos : <<a, b>> \in DOMAIN edges /\ edges[<<a, b>>] = attrs

\* C14: after associateConceptWithTopic, setConceptPrerequisite or
\* relateConceptsTogether, the nodes of the two names are joined by an edge of the
\* type carrying the call's attributes, and the same call made again changes
\* nothing: no node, no edge and no attribute.
C14_IdempotentAssociation ==
    [][/\ \A c \in AssocConcepts, t \in AssocTopics :
            AssociateConceptWithTopic(c, t, FALSE, 5) =>
                /\ Joined(belongsTo', ConceptsNamed(Graph', c), TopicsNamed(Graph', t),
                          [primary |-> FALSE, importance |-> 5])
                /\ associateConceptWithTopic(Graph', c, t, FALSE, 5) = Graph'
       /\ \A pc \in AssocPrerequisites, s \in AssocStrengths :
            SetConceptPrerequisite(pc[1], pc[2], s, "") =>
                /\ Joined(prereqFor', ConceptsNamed(Graph', pc[1]),
                          ConceptsNamed(Graph', pc[2]),
                          [strength |-> s, explanation |-> ""])
                /\ setConceptPrerequisite(Graph', pc[1], pc[2], s, "") = Graph'
       /\ \A pc \in AssocRelations, ty \in RelationshipTypes :
            RelateConceptsTogether(pc[1], pc[2], ty, 5, "") =>
                /\ Joined(relatedTo', ConceptsNamed(Graph', pc[1]),
                          ConceptsNamed(Graph', pc[2]),
                          [relationshipType |-> ty, strength |-> 5, contextualNote |-> ""])
                /\ relateConceptsTogether(Graph', pc[1], pc[2], ty, 5, "") = Graph'
      ]_vars

\* all three kinds of edge have been written between A, which exists twice, and B
\* or T1, one edge for each node named A
C14_Witness ==
    /\ resp.op = "relateConceptsTogether"
    /\ <<<<"A", 2>>, <<"T1", 1>>>> \in DOMAIN belongsTo
    /\ <<<<"A", 1>>, <<"B", 1>>>> \in DOMAIN prereqFor
    /\ <<<<"A", 2>>, <<"B", 1>>>> \in DOMAIN prereqFor
    /\ prereqFor[<<<<"A", 1>>, <<"B", 1>>>>].strength = 8
    /\ <<<<"B", 1>>, <<"A", 2>>>> \in DOMAIN relatedTo
    /\ relatedTo[<<<<"B", 1>>, <<"A", 2>>>>].relationshipType = "builds_on"

\* what an association call leaves for the names it was given: both exist, the nodes
\* it added carry these names and the placeholder data, and the nodes that were
\* there are as they were
AutoCreated(conceptNames, topicNames) ==
    /\ ~resp'.threw
    /\ \A n \in conceptNames : conceptExists(Graph', n)
    /\ \A n \in topicNames : topicExists(Graph', n)
    /\ \A c \in DOMAIN concepts' :
        IF c \in DOMAIN concepts THEN concepts'[c] = concepts[c]
        ELSE /\ NameOf(c) \in conceptNames
             /\ ConceptsNamed(Graph, NameOf(c)) = {}
             /\ concepts'[c].complexity = 3
             /\ concepts'[c].description = "Auto-generated concept"
    /\ \A t \in DOMAIN topics' :
        IF t \in DOMAIN topics THEN topics'[t] = topics[t]
        ELSE /\ NameOf(t) \in topicNames
             /\ TopicsNamed(Graph, NameOf(t)) = {}
             /\ topics'[t].difficulty = 3
             /\ topics'[t].category = "concept"

\* C15: associateConceptWithTopic, setConceptPrerequisite and relateConceptsTogether
\* do not fail for a name that does not exist: they create each missing concept
\* (complexity 3, description "Auto-generated concept") and topic (difficulty 3,
\* category "concept"), and conceptExists / topicExists then return true for it.
C15_AutoCreation ==
    [][/\ \A c \in AssocConcepts, t \in AssocTopics :
            AssociateConceptWithTopic(c, t, FALSE, 5) => AutoCreated({c}, {t})
       /\ \A pc \in AssocPrerequisites, s \in AssocStrengths :
            SetConceptPrerequisite(pc[1], pc[2], s, "") => AutoCreated({pc[1], pc[2]}, {})
       /\ \A pc \in AssocRelations, ty \in RelationshipTypes :
            RelateConceptsTogether(pc[1], pc[2], ty, 5, "") =>
                AutoCreated({pc[1], pc[2]}, {})
       /\ \A c \in AssocConcepts :
            (ConceptExists(c) /\ ConceptsNamed(Graph, c) # {}) => resp'.exists
       /\ \A t \in AssocTopics :
            (TopicExists(t) /\ TopicsNamed(Graph, t) # {}) => resp'.exists
      ]_vars

\* B and T1 were never created by name: they are placeholders, joined by a
\* BELONGS_TO edge, and conceptExists("B") has returned true
C15_Witness ==
    /\ resp.op = "conceptExists" /\ resp.name = "B" /\ resp.exists
    /\ concepts[<<"B", 1>>] = PlaceholderConcept
    /\ <<"T1", 1>> \in DOMAIN topics
    /\ topics[<<"T1", 1>>].category = "concept"
    /\ <<<<"B", 1>>, <<"T1", 1>>>> \in DOMAIN belongsTo

\* C16 (as claimed): whatever the interleaving of the requests, there is at most one
\* Concept node of a name and at most one Topic node of a name.
C16_UniqueNames ==
    /\ \A c1 \in DOMAIN concepts, c2 \in DOMAIN concepts : NameOf(c1) = NameOf(c2) => c1 = c2
    /\ \A t1 \in DOMAIN topics, t2 \in DOMAIN topics : NameOf(t1) = NameOf(t2) => t1 = t2

\* C17: every User has its LearningProfile and every LearningProfile its User, both
\* written by one createUser; a createUser for an id that has a User, as made by a
\* handler that saw userExists = false before another handler created the user, is
\* rejected and writes nothing.
C17_OneProfilePerUser ==
    /\ [](DOMAIN users = DOMAIN profiles)
    /\ [][\A h \in Handlers :
              EvalCreateUser(h) =>
                  IF handlers[h].userId \in DOMAIN users
                  THEN /\ handlers'[h] = Idle
                       /\ UNCHANGED GraphVars
                  ELSE /\ DOMAIN users' = DOMAIN users \cup {handlers[h].userId}
                       /\ DOMAIN profiles' = DOMAIN users'
                       /\ \A u \in DOMAIN users :
                            users'[u] = users[u] /\ profiles'[u] = profiles[u]]_vars

\* a handler's createUser was rejected for the user another handler had created
C17_Witness ==
    /\ resp.op = ToolName
    /\ resp.error = "constraint"
    /\ DOMAIN users = {"u1"}
    /\ DOMAIN profiles = {"u1"}

\* what the graph holds for one user
KnowsOf(u) == [e \in {x \in DOMAIN knows : x[1] = u} |-> knows[e]]
TracksOf(u) == [e \in {x \in DOMAIN tracks : x[1] = u} |-> tracks[e]]
ProfileOf(u) == IF u \in DOMAIN profiles THEN <<profiles[u]>> ELSE <<>>
EventsOf(u) == SelectSeq(events, LAMBDA le : le.userId = u)

\* C18: a step of a request of one session leaves the KNOWS edges, the TRACKS edges,
\* the LearningProfile and the LearningEvents of every other user as they were,
\* whatever the other session's request has done or is about to do.
C18_IndependentUsers ==
    [][\A h \in Handlers :
          handlers'[h] # handlers[h] =>
              \A u \in UserIds \ {SessionOf[h]} :
                  /\ KnowsOf(u)' = KnowsOf(u)
                  /\ TracksOf(u)' = TracksOf(u)
                  /\ ProfileOf(u)' = ProfileOf(u)
                  /\ EventsOf(u)' = EventsOf(u)]_vars

\* both users have evidence, a tracked topic and a learning event, written at
\* different times
C18_Witness ==
    /\ <<"u1", <<"A", 1>>>> \in DOMAIN knows
    /\ <<"u2", <<"A", 1>>>> \in DOMAIN knows
    /\ knows[<<"u1", <<"A", 1>>>>].lastUpdated # knows[<<"u2", <<"A", 1>>>>].lastUpdated
    /\ <<"u1", <<"T1", 1>>>> \in DOMAIN tracks
    /\ <<"u2", <<"T1", 1>>>> \in DOMAIN tracks
    /\ profiles["u1"].lastUpdated # profiles["u2"].lastUpdated
    /\ EventsOf("u1") # <<>>
    /\ EventsOf("u2") # <<>>

\* the texts JSON.parse accepts
WellFormed(text) == ~JSONparse(text).threw

\* the reply holds no JSON: no part of it is a JSON text
NoJson(content) ==
    \A i \in 1..Len(content), j \in 1..Len(content) : ~WellFormed(SubSeq(content, i, j))

\* what the service took for JSON cannot be parsed
Unparsable(content) ==
    /\ jsonMatch(content) # NoMatch
    /\ ~WellFormed(matchedText(jsonMatch(content)))

Unusable(reply) == reply.throws \/ NoJson(reply.content) \/ Unparsable(reply.content)

\* C19: neither quickAnalyze nor analyzeConversation throws, whatever the model
\* answers; when the model call throws, the reply holds no JSON or its JSON cannot
\* be parsed, quickAnalyze for 'determine-if-programming-related' returns
\* isProgrammingRelated = false and analyzeConversation returns an empty concepts
\* list.
C19_LlmFallback ==
    /\ resp.op \in {"quickAnalyze", "analyzeConversation"} => ~resp.threw
    /\ (/\ resp.op = "quickAnalyze"
        /\ resp.task = DetermineTask
        /\ Unusable(resp.reply))
            => resp.result = [isProgrammingRelated |-> FALSE]
    /\ (resp.op = "analyzeConversation" /\ Unusable(resp.reply))
            => /\ "concepts" \in DOMAIN resp.result
               /\ resp.result.concepts = <<>>

\* analyzeConversation has returned the empty concepts list for a reply whose code
\* fence holds text that is no JSON
C19_Witness ==
    /\ resp.op = "analyzeConversation"
    /\ ~resp.reply.throws
    /\ fenceMatch(resp.reply.content) # NoMatch
    /\ fenceMatch(resp.reply.content).group # <<>>
    /\ Unparsable(resp.reply.content)
    /\ ~resp.threw
    /\ resp.result.concepts = <<>>
    /\ resp.result.detectedTopic = "programming"

\* C20: a response of the get-learning-progress tool to a request during which a
\* graph statement failed has isError = true.
C20_FailuresReported ==
    (resp.op = ProgressTool /\ resp.storeThrew) => resp.isError

\* C21: a step in which getUserOverview, getTopicKnowledge, getConceptKnowledge,
\* getRelatedConcepts, getRecentLearningEvents, findPrerequisitesNotKnown or
\* getRecommendedNextConcepts returns leaves every node, every edge and every
\* attribute of the graph as it was, whether or not what it names exists.
C21_ReadsDoNotMutate ==
    [][resp'.op \in ReadOps => UNCHANGED GraphVars]_vars

\* getConceptKnowledge has returned for a user without profile and a concept without
\* node, over a store that holds knowledge, and neither has come to exist
C21_Witness ==
    /\ resp.op = "getConceptKnowledge"
    /\ resp.userId = "u2"
    /\ "C" \in resp.arg
    /\ ~userExists(Graph, "u2")
    /\ ~conceptExists(Graph, "C")
    /\ DOMAIN knows # {}
    /\ events # <<>>

\* the limit in force
LimitOf(limit) == IF limit = NullInt THEN DefaultLimit ELSE limit

C23_NotFoundFallback ==
    [][\A h \in Handlers :
          (/\ handlers'[h] # handlers[h]
           /\ handlers[h].pc \in {"progress.getTopicKnowledge", "progress.getUserOverview"}
           /\ userExists(Graph, handlers[h].userId)
           /\ ~topicExists(Graph, handlers[h].topic))
          => IF handlers[h].pc = "progress.getTopicKnowledge"
             THEN /\ handlers'[h].pc = "progress.getUserOverview"
                  /\ UNCHANGED resp
             ELSE /\ handlers'[h] = Idle
                  /\ resp'.op = ProgressTool
                  /\ resp'.userId = handlers[h].userId /\ resp'.topic = handlers[h].topic
                  /\ IF ProgressStoreFails(h) THEN resp'.isError
                     ELSE /\ ~resp'.isError
                          /\ resp'.view = "overview"
                          /\ resp'.data = userOverviewRecords(Graph, handlers[h].userId)]_vars

\* the tool has answered u1, who knows one concept, with the overview for the topic
\* T2, which the store does not hold, and no statement has failed
C23_Witness ==
    /\ resp.op = ProgressTool
    /\ resp.userId = "u1" /\ resp.topic = "T2"
    /\ ~topicExists(Graph, "T2")
    /\ ~resp.storeThrew
    /\ ~resp.isError
    /\ resp.view = "overview"
    /\ \E r \in resp.data : r.knownConceptsCount = 1 /\ r.trackedTopicsCount = 1

\* C24: no step removes or changes a learning event; the statement of
\* createLearningEvent, run for an existing user, adds exactly one event, of that
\* user, that concept, that event type and those details.
C24_AppendOnlyAudit ==
    [][/\ Len(events') >= Len(events)
       /\ SubSeq(events', 1, Len(events)) = events
       /\ \A h \in Handlers :
            (EvalInsertEvent(h) /\ userExists(Graph, handlers[h].userId)) =>
                /\ Len(events') = Len(events) + 1
                /\ events'[Len(events')].userId = handlers[h].userId
                /\ events'[Len(events')].conceptName = Head(handlers[h].todo).name
                /\ events'[Len(events')].eventType = Head(handlers[h].todo).eventType
                /\ events'[Len(events')].details = Head(handlers[h].todo).details]_vars

\* the model has answered false, or nothing the service can use
ClassifiedUnrelated(reply) ==
    \/ Unusable(reply)
    \/ matchedText(jsonMatch(reply.content)) = <<"{", MemberUnrelated, "}">>

\* C25: when the classifier answers false, throws, or answers without parsable JSON,
\* software-mentor-evaluation returns at once with a response that is no error and
\* leaves every node and edge of the graph as it was.
C25_UnrelatedChangesNothing ==
    [][\A h \in Handlers, u \in UserIds, reply \in ClassifierReplies :
          (EvalClassify(h, u, reply) /\ ClassifiedUnrelated(reply)) =>
              /\ handlers'[h] = Idle
              /\ resp'.op = ToolName /\ resp'.userId = u
              /\ ~resp'.isError
              /\ ~resp'.updated
              /\ UNCHANGED GraphVars]_vars

\* a request of u1 has been answered without error and without update while u1 has
\* no User node and the graph holds nothing
C25_Witness ==
    /\ resp.op = ToolName
    /\ resp.userId = "u1"
    /\ ~resp.isError /\ resp.error = "none"
    /\ ~resp.updated
    /\ \A h \in Handlers : handlers[h] = Idle
    /\ Graph = EmptyGraph

\* C26: no step changes the firstSeen, the confidence or the misconceptions of a KNOWS
\* edge or removes the edge; an edge is created with firstSeen = now and confidence
\* 0.8 (8 tenths).
C26_FirstSeenOnce ==
    [][/\ \A e \in DOMAIN knows :
            /\ e \in DOMAIN knows'
            /\ knows'[e].firstSeen = knows[e].firstSeen
            /\ knows'[e].confidence = knows[e].confidence
            /\ knows'[e].misconceptions = knows[e].misconceptions
       /\ \A e \in (DOMAIN knows') \ DOMAIN knows :
            knows'[e].firstSeen = now /\ knows'[e].confidence = 8]_vars

\* an edge first seen at time 0 has taken evidence at time 1 and still says 0
C26_Witness ==
    \E e \in DOMAIN knows :
        /\ knows[e].firstSeen = 0
        /\ knows[e].lastUpdated = 1
        /\ knows[e].evidenceCount >= 2
        /\ knows[e].confidence = 8
        /\ knows[e].knowledgeStage = "mastered"

\* C27: no step changes the priority, the goal or the since of a TRACKS edge or
\* removes the edge, and the evidence for a concept creates or changes TRACKS edges
\* only of that user and only to topics the concept belongs to.
C27_TrackingFrame ==
    [][/\ \A e \in DOMAIN tracks :
            /\ e \in DOMAIN tracks'
            /\ tracks'[e].priority = tracks[e].priority
            /\ tracks'[e].goal = tracks[e].goal
            /\ tracks'[e].since = tracks[e].since
       /\ \A ev \in FrameEvidence :
            UpdateLearningProfile("u1", <<ev>>) =>
                \A e \in DOMAIN tracks' :
                    (e \notin DOMAIN tracks \/ tracks'[e] # tracks[e]) =>
                        /\ e[1] = "u1"
                        /\ \E c \in ConceptsNamed(Graph', ev.name) :
                                <<c, e[2]>> \in DOMAIN belongsTo']_vars

\* after evidence for A of T1 at time 1 the stored edge to T1 has its priority 5 and
\* its since 0, and the inactive edge to T2, to which A does not belong, is as stored
C27_Witness ==
    /\ now = 1
    /\ \E e \in DOMAIN knows : NameOf(e[2]) = "A" /\ knows[e].lastUpdated = 1
    /\ \A e \in DOMAIN knows : NameOf(e[2]) = "A"
    /\ <<<<"A", 1>>, <<"T1", 1>>>> \in DOMAIN belongsTo
    /\ <<"u1", <<"T1", 1>>>> \in DOMAIN tracks
    /\ tracks[<<"u1", <<"T1", 1>>>>] = [since |-> 0, active |-> TRUE, priority |-> 5, goal |-> "Learning"]
    /\ <<"u1", <<"T2", 1>>>> \in DOMAIN tracks
    /\ ~tracks[<<"u1", <<"T2", 1>>>>].active

\* the edges, all but those between the two sets of nodes
Others(edges, froms, tos) == [e \in (DOMAIN edges) \ (froms \X tos) |-> edges[e]]

\* C28: associateConceptWithTopic, setConceptPrerequisite or relateConceptsTogether
\* applied to endpoints that have the edge leaves the same set of edges, the edge
\* between the endpoints carrying the attributes of this call and nothing else, and
\* every other edge as it was.
C28_UpsertOverwrites ==
    [][/\ \A p \in BOOLEAN, i \in UpsertStrengths :
            AssociateConceptWithTopic("A", "T1", p, i) =>
                /\ DOMAIN belongsTo' = DOMAIN belongsTo
                /\ \A e \in ConceptsNamed(Graph, "A") \X TopicsNamed(Graph, "T1") :
                        belongsTo'[e] = [primary |-> p, importance |-> i]
                /\ Others(belongsTo', ConceptsNamed(Graph, "A"), TopicsNamed(Graph, "T1"))
                        = Others(belongsTo, ConceptsNamed(Graph, "A"), TopicsNamed(Graph, "T1"))
                /\ UNCHANGED <<concepts, topics, prereqFor, relatedTo>>
       /\ \A s \in UpsertStrengths, x \in UpsertTexts :
            SetConceptPrerequisite("A", "B", s, x) =>
                /\ DOMAIN prereqFor' = DOMAIN prereqFor
                /\ \A e \in ConceptsNamed(Graph, "A") \X ConceptsNamed(Graph, "B") :
                        prereqFor'[e] = [strength |-> s, explanation |-> x]
                /\ UNCHANGED <<concepts, topics, belongsTo, relatedTo>>
       /\ \A ty \in UpsertTypes, s \in UpsertStrengths, x \in UpsertTexts :
            RelateConceptsTogether("B", "A", ty, s, x) =>
                /\ DOMAIN relatedTo' = DOMAIN relatedTo
                /\ \A e \in ConceptsNamed(Graph, "B") \X ConceptsNamed(Graph, "A") :
                        relatedTo'[e] = [relationshipType |-> ty, strength |-> s,
                                         contextualNote |-> x]
                /\ UNCHANGED <<concepts, topics, belongsTo, prereqFor>>
      ]_vars

\* each of the three edges, stored with strength or importance 5, now carries the
\* attributes of a later call, and there is still one edge of each kind
C28_Witness ==
    /\ belongsTo = (<<<<"A", 1>>, <<"T1", 1>>>> :> [primary |-> TRUE, importance |-> 8])
    /\ prereqFor = (<<<<"A", 1>>, <<"B", 1>>>> :> [strength |-> 8, explanation |-> "x"])
    /\ relatedTo = (<<<<"B", 1>>, <<"A", 1>>>> :>
                        [relationshipType |-> "builds_on", strength |-> 8, contextualNote |-> "x"])

\* C29: ensureConceptExists / ensureTopicExists for a name that has a node changes
\* nothing; for a name without node it creates one placeholder node, and the same
\* call made again then changes nothing, so that the name has one node.
C29_EnsureIdempotent ==
    [][/\ \A c \in EnsureNames :
            EnsureConceptExists(c) =>
                /\ conceptExists(Graph, c) => UNCHANGED GraphVars
                /\ ~conceptExists(Graph, c) =>
                        /\ Cardinality(ConceptsNamed(Graph', c)) = 1
                        /\ \A n \in ConceptsNamed(Graph', c) : concepts'[n] = PlaceholderConcept
                        /\ \A n \in DOMAIN concepts : n \in DOMAIN concepts' /\ concepts'[n] = concepts[n]
                        /\ UNCHANGED topics
                /\ ensureConceptExists(Graph', c) = Graph'
       /\ \A t \in EnsureTopics :
            EnsureTopicExists(t) =>
                /\ topicExists(Graph, t) => UNCHANGED GraphVars
                /\ ~topicExists(Graph, t) =>
                        /\ Cardinality(TopicsNamed(Graph', t)) = 1
                        /\ \A n \in TopicsNamed(Graph', t) : topics'[n] = PlaceholderTopic("concept")
                        /\ \A n \in DOMAIN topics : n \in DOMAIN topics' /\ topics'[n] = topics[n]
                        /\ UNCHANGED concepts
                /\ ensureTopicExists(Graph', t) = Graph'
      ]_vars

\* ensureTopicExists has returned for T1, whose one node has the data it was created
\* with, as has the one node of A; B and T2 are placeholders
C29_Witness ==
    /\ resp.op = "ensureTopicExists" /\ resp.name = "T1"
    /\ topics = (<<"T1", 1>> :> GivenTopic) @@ (<<"T2", 1>> :> PlaceholderTopic("concept"))
    /\ concepts = (<<"A", 1>> :> ConceptDataOf(2)) @@ (<<"B", 1>> :> PlaceholderConcept)

\* C30: after any operation of the connection has returned or thrown, no session
\* that it opened is open.
C30_ScopedSessions == sessions = 0

\* C31: when a statement of updateLearningProfile fails, the request ends with the
\* error response and the graph stays as it is at that moment: the KNOWS edges of
\* the concepts already handled are there, later statements are not run.
C31_NoRollback ==
    [][\A h \in Handlers :
          (EvalStoreFails(h) /\ "phase" \in DOMAIN handlers[h]
                             /\ handlers[h].phase = "update") =>
              /\ UNCHANGED GraphVars
              /\ \A name \in DoneOf(handlers[h]) :
                    \E c \in ConceptsNamed(Graph', name) :
                        <<handlers[h].userId, c>> \in DOMAIN knows'
              /\ handlers'[h] = Idle
              /\ resp'.isError /\ resp'.error = "store" /\ ~resp'.updated
      ]_vars

\* a batch <<A, B>> at time 1 has failed after A: the edge of A is written at 1, B
\* has no edge and the profile still has its lastUpdated of time 0
C31_Witness ==
    /\ BetweenRequests
    /\ resp.op = ToolName /\ resp.error = "store"
    /\ \E c \in ConceptsNamed(Graph, "A") :
            /\ <<"u1", c>> \in DOMAIN knows
            /\ knows[<<"u1", c>>].lastUpdated = 1
            /\ knows[<<"u1", c>>].evidenceCount = 1
    /\ \A e \in DOMAIN knows : NameOf(e[2]) # "B"
    /\ "u1" \in DOMAIN profiles /\ profiles["u1"].lastUpdated = 0

\* C32: whenever no evidence update is in progress, every concept that a learner
\* has a KNOWS edge to has its topics tracked by that learner: the KNOWS write and
\* the TRACKS writes of one concept are applied together or not at all.
C32_PerConceptAtomic ==
    BetweenRequests =>
        \A e \in DOMAIN knows : \A t \in DOMAIN topics :
            <<e[2], t>> \in DOMAIN belongsTo => <<e[1], t>> \in DOMAIN tracks

\* C33: every KNOWS statement of an evidence update, whatever other updates are in
\* progress, leaves exactly one KNOWS edge between the learner and the concept of
\* that name, with one more piece of evidence than before and the larger of the
\* stored and the new proficiency; so k updates give evidenceCount k and the
\* maximum of the k proficiencies.
C33_NoLostUpdate ==
    [][\A h \in Handlers :
          EvalKnows(h) =>
              LET u == handlers[h].userId
                  ev == Head(handlers[h].todo)
                  old == {e \in DOMAIN knows : e[1] = u /\ NameOf(e[2]) = ev.name}
                  new == {e \in DOMAIN knows' : e[1] = u /\ NameOf(e[2]) = ev.name}
              IN  /\ Cardinality(new) = 1
                  /\ \A e \in new :
                        /\ knows'[e].evidenceCount =
                              1 + (IF e \in old THEN knows[e].evidenceCount ELSE 0)
                        /\ knows'[e].proficiency =
                              IF e \in old /\ knows[e].proficiency > ev.proficiency
                              THEN knows[e].proficiency ELSE ev.proficiency
                        /\ Cardinality(old) <= 1
      ]_vars

\* the reply gives the analysis no list of concepts
NoConcepts(reply) == "concepts" \notin DOMAIN analyzeConversationTry(reply).value

\* C34: when the model's reply to the analysis is unusable, the request goes on
\* with the empty concept list: the handler neither responds with an error nor
\* changes the graph at that step, and what is left of the request is the write of
\* lastUpdated.
C34_AnalysisDefault ==
    [][\A h \in Handlers, reply \in AnalysisReplies :
          (EvalAnalysis(h, reply) /\ NoConcepts(reply)) =>
              /\ handlers'[h] # Idle
              /\ handlers'[h].pc = "touch"
              /\ handlers'[h].concepts = <<>>
              /\ UNCHANGED <<GraphVars, resp>>
      ]_vars

Ensured(names) ==
    /\ \A c \in DOMAIN concepts : c \in DOMAIN concepts' /\ concepts'[c] = concepts[c]
    /\ \A c \in DOMAIN concepts' :
            c \notin DOMAIN concepts => NameOf(c) \in names /\ concepts'[c] = PlaceholderConcept
    /\ \A n \in names :
            Cardinality(ConceptsNamed(Graph', n)) =
                IF conceptExists(Graph, n) THEN Cardinality(ConceptsNamed(Graph, n)) ELSE 1

\* C37: updateLearningProfile and createLearningEvent for a user id without User
\* node return as they do on success, write no KNOWS edge, no TRACKS edge and no
\* LearningEvent, and leave a placeholder Concept node for each named concept that
\* had none.
C37_UnknownUser ==
    [][/\ \A u \in UserIds, ev \in UnknownEvidence :
            (UpdateLearningProfile(u, <<ev>>) /\ ~userExists(Graph, u)) =>
                /\ UNCHANGED <<users, profiles, topics, belongsTo, prereqFor, knows, tracks,
                               relatedTo, events>>
                /\ Ensured({ev.name})
                /\ resp' = Void("updateLearningProfile")
       /\ \A u \in UserIds, c \in {"A", "B"} :
            (CreateLearningEvent(u, c, "learned", "d") /\ ~userExists(Graph, u)) =>
                /\ UNCHANGED <<users, profiles, topics, belongsTo, prereqFor, knows, tracks,
                               relatedTo, events>>
                /\ Ensured({c})
                /\ resp' = Void("createLearningEvent")
      ]_vars

\* createLearningEvent has returned; u1 has an edge and an event, u2 has no node,
\* no edge and no event, and B, named only in calls for a user id without node,
\* has its placeholder
C37_Witness ==
    /\ resp = Void("createLearningEvent")
    /\ DOMAIN users = {"u1"}
    /\ \E c \in DOMAIN concepts : NameOf(c) = "B" /\ concepts[c] = PlaceholderConcept
    /\ \A e \in DOMAIN knows : e[1] = "u1" /\ NameOf(e[2]) = "A"
    /\ knows # EmptyFn
    /\ \A e \in DOMAIN tracks : e[1] = "u1"
    /\ Len(events) = 1 /\ events[1].userId = "u1" /\ events[1].conceptName = "A"

RECURSIVE EvidenceSum(_)
EvidenceSum(E) ==
    IF E = {} THEN 0
    ELSE LET e == CHOOSE x \in E : TRUE IN knows[e].evidenceCount + EvidenceSum(E \ {e})

\* C38: whenever no request is in progress, the pieces of evidence on a learner's
\* KNOWS edges to the concepts of a name are as many as the learner's learning
\* events that involve a concept of that name.
C38_EvidenceMatchesEvents ==
    BetweenRequests =>
        \A u \in DOMAIN users, n \in ConceptNames :
            EvidenceSum({e \in DOMAIN knows : e[1] = u /\ NameOf(e[2]) = n}) =
                Cardinality({i \in DOMAIN events :
                                events[i].userId = u /\ events[i].conceptName = n})

\* the session ids of the SSE connections that were accepted
Accepted == {SessionIds[i] : i \in 1..opened}

\* C39: the table holds the sessions that were opened and have not closed: GET /sse
\* adds its session, the close of a response removes its session, nothing else
\* changes the table; POST /messages is handed to the transport of its sessionId
\* when that names an entry of the table and is answered 400, with no transport
\* called, otherwise; /health reports the size of the table.
C39_SessionTable ==
    /\ [](DOMAIN transports \subseteq Accepted)
    /\ [][/\ handleSse => DOMAIN transports' = (DOMAIN transports) \cup {SessionIds[opened']}
          /\ \A sessionId \in PostIds :
                resClose(sessionId) => DOMAIN transports' = (DOMAIN transports) \ {sessionId}
          /\ \A sessionId \in PostIds :
                handleMessages(sessionId) =>
                    IF sessionId \in DOMAIN transports
                    THEN resp'.handledBy = sessionId
                    ELSE resp'.status = 400 /\ resp'.handledBy = NoArg
          /\ handleHealthCheck => resp'.connections = Cardinality(DOMAIN transports)
      ]_vars

\* the code the claim asks of a shutdown: 0 for the signals, 1 for the errors and
\* for a failed start
Requested(cause) == IF cause \in {"SIGINT", "SIGTERM"} THEN 0 ELSE 1

====
